---------------------------- MODULE Spec2Model ----------------------------
(***************************************************************************)
(* Resolution, alias unwinding, member enumeration and rendering of the    *)
(* Zig standard-library documentation server (zig-docs-base.ts, mcp.ts and *)
(* the docs viewer), over an abstract loaded declaration index.            *)
(*                                                                         *)
(* A string is modelled as a sequence of segments (the pieces between the  *)
(* dots), a segment as a sequence of one-character strings; the empty      *)
(* string is one empty segment, as "".split('.') is [""].                  *)
(***************************************************************************)
EXTENDS Integers, Sequences, FiniteSets, TLC

(***************************************************************************)
(* Bounds of the model.                                                    *)
(***************************************************************************)
NumDecls == 4
MaxMembers == 2
MaxQuery == 3
MaxParams == 1
MaxErrors == 2
NumCalls == 2
MaxExact == 1
SmallLimit == 1
MaxBuiltins == 3
MaxRevision == 2
MaxTicks == 3
NumLoads == 3

\* limit: number = 20
DefaultLimit == 20

(***************************************************************************)
(* Categories of the engine (categorize_decl).                             *)
(***************************************************************************)
CAT_namespace == 0
CAT_container == 1
CAT_global_variable == 2
CAT_function == 3
CAT_primitive == 4
CAT_error_set == 5
CAT_global_const == 6
CAT_alias == 7
CAT_type == 8
CAT_type_type == 9
CAT_type_function == 10

Absent == -1

\* a category value outside the eleven the code knows
CAT_unrecognized == 11

Handles == 0 .. (NumDecls - 1)

(***************************************************************************)
(* Characters and strings.                                                 *)
(***************************************************************************)
UpperChars == <<"A","B","C","D","E","F","G","H","I","J","K","L","M",
                "N","O","P","Q","R","S","T","U","V","W","X","Y","Z">>
LowerChars == <<"a","b","c","d","e","f","g","h","i","j","k","l","m",
                "n","o","p","q","r","s","t","u","v","w","x","y","z">>

IsUpper(c) == \E i \in 1..Len(UpperChars) : UpperChars[i] = c

LowerOf(c) ==
  IF IsUpper(c)
    THEN LowerChars[CHOOSE i \in 1..Len(UpperChars) : UpperChars[i] = c]
    ELSE c

\* String.prototype.toLowerCase on one segment
toLowerCase(s) == [i \in 1..Len(s) |-> LowerOf(s[i])]

RECURSIVE SnakeFrom(_, _)
SnakeFrom(s, i) ==
  IF i > Len(s) THEN << >>
  ELSE (IF IsUpper(s[i])
          THEN (IF i = 1 THEN <<LowerOf(s[i])>> ELSE <<"_", LowerOf(s[i])>>)
          ELSE <<s[i]>>) \o SnakeFrom(s, i + 1)

\* toSnakeCase: every [A-Z] becomes its lower case, preceded by "_" unless
\* it is the first character
toSnakeCase(s) == SnakeFrom(s, 1)

SegRoot == <<"r","o","o","t">>
SegStd == <<"s","t","d">>
EmptyString == << << >> >>

\* fqn.startsWith("root.") / fqn.startsWith("std.")
StartsWithRoot(n) == Len(n) >= 2 /\ n[1] = SegRoot
StartsWithStd(n) == Len(n) >= 2 /\ n[1] = SegStd

\* fqn.replace(/^std\./, "root.") and fqn.replace(/^root\./, "std.")
StdToRoot(n) == IF StartsWithStd(n) THEN <<SegRoot>> \o Tail(n) ELSE n
RootToStd(n) == IF StartsWithRoot(n) THEN <<SegStd>> \o Tail(n) ELSE n

\* fqn === "" || fqn === "root" || fqn === "std"
IsRootInput(n) == n = EmptyString \/ n = <<SegRoot>> \/ n = <<SegStd>>


(***************************************************************************)
(* The loaded index.  The engine is an opaque artifact; it is modelled by   *)
(* the interface the code consumes: a record                               *)
(*   cat      : the category of every handle,                              *)
(*   aliasee  : the target of every handle (read only for aliases),        *)
(*   fqn      : the fully qualified name of every handle,                  *)
(*   children : the child list of every handle,                            *)
(*   query    : the handles the full-text query "std." returns, in order,  *)
(*   root     : the root declaration of module 0.                          *)
(***************************************************************************)
VARIABLES
  engine,      \* the loaded index (written once, at load)
  slot,        \* the engine's hidden context: the handle last categorized as alias
  pc,          \* "idle" | "unwind" | "done"
  op,          \* the operation being served
  phase,       \* "main" (the resolved declaration) | "member" (one of its children)
  input,       \* the name the caller passed
  probes,      \* the names handed to find_decl, in order
  decl_index,  \* the resolved handle, Absent for null
  cur,         \* the handle being unwound (real_index / current / member)
  orig,        \* the handle the unwinding started from (original_index / idx)
  kind,        \* the category last read for cur
  seen,        \* the visited set of the sites that keep one
  todo,        \* the children still to be categorized
  out,         \* the entries produced so far
  result,      \* the outcome handed to the caller
  fetches,     \* number of get_aliasee calls of the current unwinding (history)
  fetched,     \* handles whose aliasee the current unwinding fetched (history)
  membersOp,   \* the engine operation that fetched the child list, and its parent
  content,     \* what the engine reports for the declaration a page is made of
  rendered,    \* the page made of it: the renderer and the headings it emitted
  wasm_exports, \* the module-level variable of the docs viewer: an instance, 0 for null
  running,     \* the call whose code the event loop is running, 0 for none
  calls,       \* per call of searchStdLib / getStdLibItem: where it is, its exports
  scratch,     \* per instance: the call that wrote the input string last, 0 for none
  oplog,       \* the engine operations issued so far (history)
  query,       \* the query string of a search
  answers,     \* the engine's matches for it, with and without ignoring case
  searched,    \* what the search returned, and the ignore_case it passed
  builtinFunctions, \* the builtin functions the server loaded, in order
  arguments,   \* the arguments of a get_builtin_function call
  response,    \* the answer to that call
  cache,       \* the files of the version's cache directory
  upstream,    \* the revision of the documentation ziglang.org serves
  now,         \* Date.now()
  ensured,     \* what the last ensureDocs call did
  stdApiCache, \* ZigDocsMcp.stdApiCache: a StdApi instance, 0 for null
  loads,       \* per call of loadStdApi: where it is, the instance it holds
  loadLog      \* requests for sources.tar, instantiations and unpacks so far (history)

apiVars == <<engine, slot, pc, op, phase, input, probes, decl_index, cur, orig,
             kind, seen, todo, out, result, fetches, fetched, membersOp>>
renderVars == <<content, rendered>>
viewerVars == <<wasm_exports, running, calls, scratch, oplog>>
searchVars == <<query, answers, searched>>
builtinVars == <<builtinFunctions, arguments, response>>
docsVars == <<cache, upstream, now, ensured>>
loadVars == <<stdApiCache, loads, loadLog>>
auxVars == <<renderVars, viewerVars, searchVars, builtinVars, docsVars, loadVars>>
outsideRender == <<apiVars, viewerVars, searchVars, builtinVars, docsVars, loadVars>>
outsideViewer == <<apiVars, renderVars, searchVars, builtinVars, docsVars, loadVars>>
outsideSearch == <<apiVars, renderVars, viewerVars, builtinVars, docsVars, loadVars>>
outsideBuiltin == <<apiVars, renderVars, viewerVars, searchVars, docsVars, loadVars>>
outsideDocs == <<apiVars, renderVars, viewerVars, searchVars, builtinVars, loadVars>>
outsideLoad == <<apiVars, renderVars, viewerVars, searchVars, builtinVars, docsVars>>

vars == <<apiVars, auxVars>>

\* wasmExports.categorize_decl(h, 0): the category; as a side effect an alias
\* answer makes h the context of the next get_aliasee
categorize_decl(e, h) == e.cat[h]
SlotAfterCategorize(e, s, h) == IF e.cat[h] = CAT_alias THEN h ELSE s

\* wasmExports.get_aliasee(): the target of the handle last categorized as alias
get_aliasee(e, s) == IF s = Absent THEN Absent ELSE e.aliasee[s]

\* wasmExports.find_decl() after set_input_string(name): lookup by name
find_decl(e, n) ==
  IF \E h \in Handles : e.fqn[h] = n
    THEN CHOOSE h \in Handles : e.fqn[h] = n /\ \A g \in Handles : e.fqn[g] = n => h <= g
    ELSE Absent

\* wasmExports.find_module_root(0)
find_module_root(e) == e.root

\* wasmExports.decl_fqn
fullyQualifiedName(e, h) == e.fqn[h]

\* namespace_members / type_fn_members: two distinct engine operations, each
\* answering for the parents of its own category only
namespaceMembers(e, h) == IF e.cat[h] = CAT_type_function THEN << >> ELSE e.children[h]
type_fn_members(e, h) == IF e.cat[h] = CAT_type_function THEN e.children[h] ELSE << >>

\* decl_docs_html(h, true) with the tags stripped: the brief doc of handle h
declDocsHtmlShort(e, h) == <<"doc", h>>

kindString(cat) ==
  CASE cat = 0 -> "namespace"
    [] cat = 1 -> "container"
    [] cat = 2 -> "global_variable"
    [] cat = 3 -> "function"
    [] cat = 4 -> "primitive"
    [] cat = 5 -> "error_set"
    [] cat = 6 -> "global_const"
    [] cat = 7 -> "alias"
    [] cat = 8 -> "type"
    [] cat = 9 -> "type_type"
    [] cat = 10 -> "type_function"
    [] OTHER -> "unknown"

(***************************************************************************)
(* Candidate resolution.                                                   *)
(***************************************************************************)
commonSubmodules == <<
  <<"a","r","r","a","y","_","l","i","s","t">>,
  <<"h","a","s","h","_","m","a","p">>,
  <<"l","i","n","k","e","d","_","l","i","s","t">>,
  <<"p","r","i","o","r","i","t","y","_","q","u","e","u","e">>,
  <<"s","e","g","m","e","n","t","e","d","_","l","i","s","t">>,
  <<"m","u","l","t","i","_","a","r","r","a","y","_","l","i","s","t">>,
  <<"b","i","t","_","s","e","t">>,
  <<"e","n","u","m","s">>,
  <<"m","e","m">>,
  <<"f","s">>,
  <<"j","s","o","n">>,
  <<"f","m","t">>,
  <<"c","r","y","p","t","o">>,
  <<"c","o","m","p","r","e","s","s">>,
  <<"n","e","t">>,
  <<"h","t","t","p">>
>>

\* triedFqns of listMembers and resolveFqnAndKind (non-root input)
ListCandidates(fqn) ==
  IF ~StartsWithRoot(fqn) /\ ~StartsWithStd(fqn)
    THEN << <<SegRoot>> \o fqn, <<SegStd>> \o fqn, fqn >>
  ELSE IF StartsWithStd(fqn)
    THEN << StdToRoot(fqn), fqn >>
  ELSE << fqn >>

\* snake_case submodule candidates under the root form only
SnakeCandidates_RootOnly(fqn) ==
  IF Len(fqn) = 2 /\ fqn[1] = SegStd /\ toSnakeCase(fqn[2]) # toLowerCase(fqn[2])
    THEN << <<SegRoot, toSnakeCase(fqn[2]), fqn[2]>> >>
    ELSE << >>

\* the snake_case submodule candidates of getItemDetails
SnakeCandidates(fqn) ==
  IF Len(fqn) = 2 /\ fqn[1] = SegStd
    THEN LET itemName == fqn[2]
             snakeCaseName == toSnakeCase(itemName)
         IN IF snakeCaseName # toLowerCase(itemName)
              THEN << <<SegRoot, snakeCaseName, itemName>>,
                      <<SegStd, snakeCaseName, itemName>> >>
              ELSE << >>
    ELSE << >>

\* candidates that try a std.-prefixed input as written before its root form
ItemCandidates_RawFirst(fqn) ==
  IF ~StartsWithRoot(fqn) /\ ~StartsWithStd(fqn)
    THEN << <<SegRoot>> \o fqn, <<SegStd>> \o fqn, fqn >>
  ELSE IF StartsWithStd(fqn)
    THEN << fqn, StdToRoot(fqn) >> \o SnakeCandidates(fqn)
  ELSE << fqn >>

\* triedFqns of getItemDetails (non-root input)
ItemCandidates(fqn) ==
  IF ~StartsWithRoot(fqn) /\ ~StartsWithStd(fqn)
    THEN << <<SegRoot>> \o fqn, <<SegStd>> \o fqn, fqn >>
  ELSE IF StartsWithStd(fqn)
    THEN << StdToRoot(fqn), fqn >> \o SnakeCandidates(fqn)
  ELSE << fqn >>

\* the last-resort candidates of getItemDetails: root.<submodule>.<itemName>
SubmoduleCandidates(fqn) ==
  IF StartsWithStd(fqn)
    THEN [i \in 1..Len(commonSubmodules) |->
            <<SegRoot, commonSubmodules[i]>> \o Tail(fqn)]
    ELSE << >>

\* triedFqns of the mcp.ts variants: the root input is probed as "root"
McpCandidates(fqn) ==
  IF IsRootInput(fqn) THEN << <<SegRoot>> >> ELSE ListCandidates(fqn)

\* for (const candidate of triedFqns) { decl_index = findDecl(candidate);
\*   if (decl_index !== null) break; }
RECURSIVE ProbeFrom(_, _, _, _)
ProbeFrom(e, cands, i, tried) ==
  IF i > Len(cands) THEN [decl |-> Absent, probes |-> tried]
  ELSE LET r == find_decl(e, cands[i])
       IN IF r # Absent
            THEN [decl |-> r, probes |-> Append(tried, cands[i])]
            ELSE ProbeFrom(e, cands, i + 1, Append(tried, cands[i]))

\* a probe loop without the break: the last resolving candidate is kept
ProbeAll_LastWins(e, cands, tried) ==
  LET hits == {i \in 1..Len(cands) : find_decl(e, cands[i]) # Absent}
  IN [decl |-> IF hits = {} THEN Absent
               ELSE find_decl(e, cands[CHOOSE i \in hits : \A j \in hits : j <= i]),
      probes |-> tried \o cands]

ProbeAll(e, cands, tried) == ProbeFrom(e, cands, 1, tried)

\* the resolution stage of listMembers / resolveFqnAndKind (non-root input)
ResolveList(e, fqn) == ProbeAll(e, ListCandidates(fqn), << >>)

\* a resolution that probes the common submodules whatever the earlier
\* candidates gave, and prefers what it finds there
ResolveItem_SubmodulesAlways(e, fqn) ==
  IF IsRootInput(fqn)
    THEN [decl |-> find_module_root(e), probes |-> << >>]
    ELSE LET first == ProbeAll(e, ItemCandidates(fqn), << >>)
             second == ProbeAll(e, SubmoduleCandidates(fqn), first.probes)
         IN IF second.decl # Absent THEN second
            ELSE [decl |-> first.decl, probes |-> second.probes]

\* the resolution stage of getItemDetails (zig-docs-base.ts)
ResolveItem(e, fqn) ==
  IF IsRootInput(fqn)
    THEN [decl |-> find_module_root(e), probes |-> << >>]
    ELSE LET first == ProbeAll(e, ItemCandidates(fqn), << >>)
         IN IF first.decl = Absent /\ StartsWithStd(fqn)
              THEN ProbeAll(e, SubmoduleCandidates(fqn), first.probes)
              ELSE first

\* the resolution stage of the mcp.ts variants
ResolveMcp(e, fqn) == ProbeAll(e, McpCandidates(fqn), << >>)


(***************************************************************************)
(* Sorting of the root listing: stdItems.sort((a, b) =>                    *)
(* a.name.localeCompare(b.name)).  localeCompare orders first by the       *)
(* letters regardless of case, "_" and "." before the letters, and breaks  *)
(* ties with lower case before upper case.                                 *)
(***************************************************************************)
CollationOrder == <<"_", ".">> \o LowerChars

CharRank(c) ==
  IF \E i \in 1..Len(CollationOrder) : CollationOrder[i] = LowerOf(c)
    THEN CHOOSE i \in 1..Len(CollationOrder) : CollationOrder[i] = LowerOf(c)
    ELSE 0

\* the characters of a name, the segments joined with "."
RECURSIVE Flatten(_)
Flatten(n) ==
  IF Len(n) = 0 THEN << >>
  ELSE IF Len(n) = 1 THEN n[1]
  ELSE n[1] \o <<".">> \o Flatten(Tail(n))

RECURSIVE PrimaryCompare(_, _, _)
PrimaryCompare(a, b, i) ==
  IF i > Len(a) /\ i > Len(b) THEN 0
  ELSE IF i > Len(a) THEN -1
  ELSE IF i > Len(b) THEN 1
  ELSE IF CharRank(a[i]) < CharRank(b[i]) THEN -1
  ELSE IF CharRank(a[i]) > CharRank(b[i]) THEN 1
  ELSE PrimaryCompare(a, b, i + 1)

RECURSIVE CaseCompare(_, _, _)
CaseCompare(a, b, i) ==
  IF i > Len(a) THEN 0
  ELSE IF a[i] = b[i] THEN CaseCompare(a, b, i + 1)
  ELSE IF IsUpper(b[i]) THEN -1 ELSE 1

localeCompare(x, y) ==
  LET a == Flatten(x)
      b == Flatten(y)
      p == PrimaryCompare(a, b, 1)
  IN IF p # 0 THEN p ELSE CaseCompare(a, b, 1)

RECURSIVE InsertByName(_, _)
InsertByName(x, sorted) ==
  IF sorted = << >> THEN <<x>>
  ELSE IF localeCompare(x.name, Head(sorted).name) < 0 THEN <<x>> \o sorted
  ELSE <<Head(sorted)>> \o InsertByName(x, Tail(sorted))

\* a listing left in query order
SortByName_QueryOrder(items) == items

RECURSIVE SortByName(_)
SortByName(items) ==
  IF items = << >> THEN << >>
  ELSE InsertByName(items[Len(items)], SortByName(SubSeq(items, 1, Len(items) - 1)))


(***************************************************************************)
(* Names of the model: the identifiers the declarations and the requests   *)
(* are built from.  "aB" is a camel-case identifier (snake case "a_b"),    *)
(* "Ab" has a single leading capital (snake case "ab").                    *)
(***************************************************************************)
IdFs == <<"f","s">>
IdMem == <<"m","e","m">>
IdCamel == <<"a","B">>
IdCamelSnake == <<"a","_","b">>
IdHump == <<"A","b">>
IdHumpSnake == <<"a","b">>

\* the names a caller may pass
UserNames == {
  EmptyString, <<SegStd>>, <<SegRoot>>,
  <<IdFs>>, <<SegStd, IdFs>>, <<SegRoot, IdFs>>,
  <<SegStd, IdCamel>>, <<SegRoot, IdCamel>>,
  <<SegStd, IdHump>>,
  <<SegStd, IdCamelSnake, IdCamel>> }

\* the fully qualified names a declaration may carry in the index
DeclNameSeq == <<
  <<SegRoot, IdFs>>, <<SegStd, IdFs>>, <<IdFs>>,
  <<SegRoot, IdCamel>>, <<SegStd, IdCamel>>,
  <<SegRoot, IdCamelSnake, IdCamel>>, <<SegStd, IdCamelSnake, IdCamel>>,
  <<SegRoot, IdHumpSnake, IdHump>>,
  <<SegRoot, IdMem, IdCamel>>, <<SegRoot, IdFs, IdCamel>> >>

\* a name no request of the model asks for
FillerName(h) == <<SegRoot, [i \in 1..(h + 1) |-> "x"]>>

\* an index whose declarations alias one another
AliasLayout == <<
  <<SegRoot>>, <<SegRoot, IdFs>>, <<SegRoot, IdCamel>>,
  <<SegRoot, IdCamelSnake, IdCamel>>, <<SegRoot, IdMem, IdCamel>> >>

\* an index with declarations below root.std
StdLayout == <<
  <<SegRoot>>, <<SegRoot, SegStd, IdFs>>, <<SegRoot, SegStd, IdCamel>>,
  <<SegRoot, SegStd, IdFs, IdCamel>>, <<SegRoot, SegStd, IdHump>> >>

LayoutName(layout, h) == IF h + 1 <= Len(layout) THEN layout[h + 1] ELSE FillerName(h)

\* the category a declaration has when it is not an alias
NativeCats == <<CAT_container, CAT_namespace, CAT_function, CAT_global_const,
                CAT_type_function, CAT_type, CAT_global_variable>>
NativeCat(h) == IF h + 1 <= Len(NativeCats) THEN NativeCats[h + 1] ELSE CAT_container

SeqsUpTo(S, n) == UNION { [1..k -> S] : k \in 0..n }
IsInjective(q) == \A i, j \in 1..Len(q) : q[i] = q[j] => i = j

Parents == {0, 1}
Kids == Handles \ Parents

\* indexes with every alias graph over the declarations that are not parents,
\* and every child list of the two parents
AliasEngines ==
  { [cat |-> [h \in Handles |->
               IF h \in Kids /\ al[h] # Absent THEN CAT_alias ELSE NativeCat(h)],
     aliasee |-> [h \in Handles |-> IF h \in Kids THEN al[h] ELSE Absent],
     fqn |-> [h \in Handles |-> LayoutName(AliasLayout, h)],
     children |-> [h \in Handles |-> IF h \in Parents THEN ch ELSE << >>],
     query |-> << >>,
     root |-> 0] :
    al \in [Kids -> Handles \cup {Absent}],
    ch \in {q \in SeqsUpTo(Kids, MaxMembers) : IsInjective(q)} }

\* indexes without aliases in which the declarations carry any names
NamedEngines ==
  { [cat |-> [h \in Handles |-> NativeCat(h)],
     aliasee |-> [h \in Handles |-> Absent],
     fqn |-> [h \in Handles |-> IF h = 0 THEN <<SegRoot>> ELSE DeclNameSeq[ix[h]]],
     children |-> [h \in Handles |-> << >>],
     query |-> << >>,
     root |-> 0] :
    ix \in {f \in [Handles \ {0} -> 1..Len(DeclNameSeq)] :
              \A g, h \in Handles \ {0} : g < h => f[g] < f[h]} }

\* indexes with declarations below root.std and any answer to the query "std."
StdEngines ==
  { [cat |-> [h \in Handles |-> IF h = 2 /\ chain THEN CAT_alias ELSE NativeCat(h)],
     aliasee |-> [h \in Handles |-> IF h = 2 /\ chain THEN 1 ELSE Absent],
     fqn |-> [h \in Handles |-> LayoutName(StdLayout, h)],
     children |-> [h \in Handles |-> << >>],
     query |-> q,
     root |-> 0] :
    chain \in BOOLEAN, q \in SeqsUpTo(Handles, MaxQuery) }

\* indexes in which the engine answers an unrecognized category for one
\* declaration, which another one may alias
OddEngines ==
  { [cat |-> [h \in Handles |->
               IF h = odd THEN CAT_unrecognized
               ELSE IF h \in Kids /\ chain THEN CAT_alias ELSE NativeCat(h)],
     aliasee |-> [h \in Handles |-> IF h \in Kids \ {odd} /\ chain THEN odd ELSE Absent],
     fqn |-> [h \in Handles |-> LayoutName(AliasLayout, h)],
     children |-> [h \in Handles |-> IF h \in Parents THEN ch ELSE << >>],
     query |-> << >>,
     root |-> 0] :
    odd \in Kids, chain \in BOOLEAN,
    ch \in {q \in SeqsUpTo(Kids, MaxMembers) : IsInjective(q)} }

\* what the engine may do when it is handed -1 as a handle: the call does
\* not return (the instance traps), or it returns some category
Trapped == 12
StrayAnswers == {Trapped, CAT_container, CAT_function, CAT_alias}

\* indexes in which the target of one alias cannot be fetched (get_aliasee
\* answers -1), which another declaration may alias
LostEngines ==
  { [cat |-> [h \in Handles \cup {Absent} |->
               IF h = Absent THEN stray
               ELSE IF h = lost \/ (h \in Kids /\ chain) THEN CAT_alias
               ELSE NativeCat(h)],
     aliasee |-> [h \in Handles \cup {Absent} |->
                   IF h \in Kids \ {lost} /\ chain THEN lost ELSE Absent],
     fqn |-> [h \in Handles \cup {Absent} |->
               IF h = Absent THEN FillerName(NumDecls) ELSE LayoutName(AliasLayout, h)],
     children |-> [h \in Handles \cup {Absent} |-> IF h \in Parents THEN ch ELSE << >>],
     query |-> << >>,
     root |-> 0] :
    lost \in Kids, chain \in BOOLEAN, stray \in StrayAnswers,
    ch \in {q \in SeqsUpTo(Kids, MaxMembers) : IsInjective(q)} }

\* indexes in which root.fs is a type function with members, which root.aB
\* may alias; whether the engine answers namespace_members of the alias with
\* the members of its target is left open
TypeFnEngines ==
  { [cat |-> [h \in Handles |->
               IF h = 1 THEN CAT_type_function
               ELSE IF h = 2 /\ chain THEN CAT_alias ELSE NativeCat(h)],
     aliasee |-> [h \in Handles |-> IF h = 2 /\ chain THEN 1 ELSE Absent],
     fqn |-> [h \in Handles |-> LayoutName(AliasLayout, h)],
     children |-> [h \in Handles |->
                    IF h = 1 \/ (h = 2 /\ chain /\ through) THEN ch ELSE << >>],
     query |-> << >>,
     root |-> 0] :
    chain \in BOOLEAN, through \in BOOLEAN,
    ch \in {q \in SeqsUpTo(Kids, MaxMembers) : IsInjective(q)} }

\* categorize_decl(h, 0) does not return
Traps(e, h) == h = Absent /\ e.cat[h] = Trapped

NoResult == [type |-> "none", title |-> << >>, kind |-> "", real |-> Absent,
             items |-> << >>, reply |-> ""]

NoMembersOp == [fn |-> "", on |-> Absent]

\* no request is being served
ApiStart ==
  /\ slot = Absent
  /\ pc = "idle"
  /\ op = "none"
  /\ phase = "none"
  /\ input = << >>
  /\ probes = << >>
  /\ decl_index = Absent
  /\ cur = Absent
  /\ orig = Absent
  /\ kind = ""
  /\ seen = {}
  /\ todo = << >>
  /\ out = << >>
  /\ result = NoResult
  /\ fetches = 0
  /\ fetched = {}
  /\ membersOp = NoMembersOp

NoContent == [kind |-> "", proto |-> 0, params |-> 0, errorSet |-> 0, errors |-> 0,
              doctest |-> 0, source |-> 0, members |-> 0, fields |-> 0]
NoPage == [by |-> "", include_source |-> FALSE, headings |-> << >>]

\* no page is being made
RenderIdle == content = NoContent /\ rendered = NoPage

Calls == 1..NumCalls

\* no call of the docs viewer's functions has been made
ViewerIdle ==
  /\ wasm_exports = 0
  /\ running = 0
  /\ calls = [c \in Calls |-> [pc |-> "idle", fn |-> "", exports |-> 0]]
  /\ scratch = [i \in Calls |-> 0]
  /\ oplog = << >>

NoAnswers == [sensitive |-> << >>, insensitive |-> << >>]
NoMatches == [by |-> "", ignore_case |-> FALSE, total |-> 0, entries |-> << >>]

\* no search has been made
SearchIdle == query = << >> /\ answers = NoAnswers /\ searched = NoMatches

NoArguments == [given |-> FALSE, function_name |-> << >>]
NoResponse == [kind |-> "", isError |-> FALSE, listed |-> << >>]

\* no builtin function is loaded and none was asked for
BuiltinIdle ==
  builtinFunctions = << >> /\ arguments = NoArguments /\ response = NoResponse

\* a file that does not exist, and one whose content does not parse
Missing == -1
Unreadable == -2

EmptyCache == [builtins |-> Missing, sources |-> Missing, metadata |-> Missing]
NotEnsured == [policy |-> "", update |-> FALSE, status |-> "", fetched |-> {},
               wrote |-> {}, builtinFunctions |-> Missing]

\* a fresh installation on which ensureDocs has not run
DocsIdle == cache = EmptyCache /\ upstream = 0 /\ now = 0 /\ ensured = NotEnsured

\* the callers of loadStdApi within one process
Loaders == 1 .. NumLoads
NotLoading == [at |-> "idle", api |-> 0]
LoadIdle ==
  /\ stdApiCache = 0
  /\ loads = [c \in Loaders |-> NotLoading]
  /\ loadLog = [tar |-> 0, wasm |-> 0, unpack |-> 0]

Init ==
  /\ engine \in AliasEngines \cup NamedEngines \cup StdEngines \cup OddEngines
                \cup LostEngines \cup TypeFnEngines
  /\ ApiStart
  /\ RenderIdle
  /\ ViewerIdle
  /\ SearchIdle
  /\ BuiltinIdle
  /\ DocsIdle
  /\ LoadIdle


(***************************************************************************)
(* Rendering helpers.                                                      *)
(***************************************************************************)
\* wasm_exports.decl_name / decl_category_name: the declared name of h
declIndexName(e, h) == << e.fqn[h][Len(e.fqn[h])] >>

\* mcp.ts declDocsHtmlShort: unwrapString applied to the handle itself, which
\* reads it as a packed (pointer, length) pair.  A handle is a 32-bit value,
\* so the length half (the bits from 32 up) is 0 and the string is empty
McpDeclDocsHtmlShort(e, h) ==
  LET len == 0
  IN IF len = 0 THEN << >> ELSE <<"bytes", h, len>>

\* a breakdown without the final else: other kinds get no section
ItemSection_NoValues(k) ==
  IF k = "container" \/ k = "type" \/ k = "type_function" THEN "Types"
  ELSE IF k = "namespace" THEN "Namespaces"
  ELSE IF k = "function" THEN "Functions"
  ELSE ""

\* the member section of getItemDetails for a member of kind k
ItemSection(k) ==
  IF k = "container" \/ k = "type" \/ k = "type_function" THEN "Types"
  ELSE IF k = "namespace" THEN "Namespaces"
  ELSE IF k = "function" THEN "Functions"
  ELSE "Values"

\* the member list of renderNamespaceMarkdown for a member of kind k
PageSection(k) ==
  CASE k = "namespace" -> "Namespaces"
    [] k = "container" -> "Types"
    [] k = "global_variable" -> "Global Variables"
    [] k = "function" -> "Functions"
    [] k \in {"type", "type_type", "type_function"} -> "Types"
    [] k = "error_set" -> "Error Sets"
    [] OTHER -> "Values"

\* a title that always shows the resolved name
DisplayName_Resolved(e, fqn, decl, real) ==
  RootToStd(fullyQualifiedName(e, real))

\* display_name of getItemDetails (zig-docs-base.ts)
DisplayName(e, fqn, decl, real) ==
  LET original_fqn == fullyQualifiedName(e, decl)
      resolved_name == RootToStd(fullyQualifiedName(e, real))
  IN IF StartsWithStd(fqn) /\ Len(fqn) = 2 THEN fqn
     ELSE IF Len(original_fqn) >= 3 /\ original_fqn[1] = SegRoot
             /\ original_fqn[2] = SegStd /\ Len(original_fqn) = 3
       THEN Tail(original_fqn)
     ELSE resolved_name

\* the children getItemDetails lists below a declaration of kind k
ItemMembers(e, real, k) ==
  IF k = "namespace" \/ k = "container" \/ k = "type_function"
    THEN (IF k = "type_function" THEN type_fn_members(e, real)
                                 ELSE namespaceMembers(e, real))
    ELSE << >>

\* mcp.ts getItemDetails lists namespaces and containers only
McpItemMembers(e, real, k) ==
  IF k = "namespace" \/ k = "container" THEN namespaceMembers(e, real) ELSE << >>

\* the engine operation each site fetches the child list with, for a parent
\* of kind k ("" where the site fetches none)
MembersOp(site, k) ==
  CASE site = "listMembers" ->
         IF k = "type_function" THEN "type_fn_members" ELSE "namespace_members"
    [] site = "McpListMembers" -> "namespace_members"
    [] site \in {"getItemDetails", "getStdLibItem"} ->
         IF k = "type_function" THEN "type_fn_members"
         ELSE IF k = "namespace" \/ k = "container" THEN "namespace_members"
         ELSE ""
    [] site = "McpGetItemDetails" ->
         IF k = "namespace" \/ k = "container" THEN "namespace_members" ELSE ""
    [] OTHER -> ""

\* the children listMembers maps over (zig-docs-base.ts)
ListChildren(e, decl) ==
  IF categorize_decl(e, decl) = 10 THEN type_fn_members(e, decl)
                                   ELSE namespaceMembers(e, decl)

\* renderDecl dispatch: the children of the page rendered for a declaration
PageMembers(e, h, k) ==
  IF k = "namespace" \/ k = "container" THEN namespaceMembers(e, h)
  ELSE IF k = "type_function" THEN type_fn_members(e, h)
  ELSE << >>

\* the filter of the root listing: fullName.startsWith("root.std."), two
\* segments once "root." is removed, and a name not seen yet
Listable(e, h, items) ==
  LET fullName == fullyQualifiedName(e, h)
  IN /\ Len(fullName) >= 3
     /\ fullName[1] = SegRoot
     /\ fullName[2] = SegStd
     /\ Len(Tail(fullName)) = 2
     /\ \A i \in 1..Len(items) : items[i].name # Tail(fullName)

RECURSIVE SkipUnlisted(_, _, _)
SkipUnlisted(e, pending, items) ==
  IF pending = << >> THEN << >>
  ELSE IF Listable(e, Head(pending), items) THEN pending
  ELSE SkipUnlisted(e, Tail(pending), items)

IsRootListing == op = "listMembers" /\ IsRootInput(input)

\* the entry one finished child contributes
Entry(e, o, real, k) ==
  CASE op = "getItemDetails" \/ op = "McpGetItemDetails" ->
         [idx |-> o, real |-> real, kind |-> k,
          name |-> RootToStd(fullyQualifiedName(e, o)),
          brief |-> declDocsHtmlShort(e, real), section |-> ItemSection(k)]
    [] op = "listMembers" ->
         [idx |-> o, real |-> real, kind |-> k,
          name |-> IF IsRootInput(input) THEN Tail(fullyQualifiedName(e, o))
                                         ELSE fullyQualifiedName(e, o),
          brief |-> declDocsHtmlShort(e, real), section |-> ""]
    [] op = "McpListMembers" ->
         [idx |-> o, real |-> real, kind |-> k,
          name |-> fullyQualifiedName(e, real),
          brief |-> McpDeclDocsHtmlShort(e, real), section |-> ""]
    [] OTHER ->
         \* renderNamespaceMarkdown: functions and global variables keep the
         \* unwound member only, the other lists keep the original as well
         [idx |-> IF k \in {"function", "global_variable"} THEN real ELSE o,
          real |-> real, kind |-> k,
          name |-> declIndexName(e, IF k \in {"function", "global_variable"}
                                      THEN real ELSE o),
          brief |-> declDocsHtmlShort(e, real), section |-> PageSection(k)]

\* what the caller finally gets, once every child is done
Final(res, items, rootListing) ==
  CASE res.type = "doc" -> [res EXCEPT !.items = items]
    [] res.type = "list" ->
         [res EXCEPT !.items = IF rootListing THEN SortByName(items) ELSE items,
                     !.reply = IF items = << >> THEN "No members found" ELSE "members"]
    [] OTHER -> res

\* go on with the next child, or hand the result to the caller
Continue(slotNow, pending, items, res, rootListing) ==
  LET rest == IF rootListing THEN SkipUnlisted(engine, pending, items) ELSE pending
  IN /\ out' = items
     /\ seen' = {}
     /\ fetches' = 0
     /\ fetched' = {}
     /\ IF rest = << >>
          THEN /\ pc' = "done"
               /\ result' = Final(res, items, rootListing)
               /\ todo' = << >>
               /\ cur' = Absent
               /\ orig' = Absent
               /\ kind' = ""
               /\ phase' = "none"
               /\ slot' = slotNow
          ELSE /\ pc' = "unwind"
               /\ result' = res
               /\ todo' = Tail(rest)
               /\ cur' = Head(rest)
               /\ orig' = Head(rest)
               /\ kind' = kindString(categorize_decl(engine, Head(rest)))
               /\ phase' = "member"
               /\ slot' = SlotAfterCategorize(engine, slotNow, Head(rest))

\* a request whose name did not resolve, or whose rendering gave up
Fail(res) ==
  /\ pc' = "done"
  /\ result' = res
  /\ UNCHANGED <<cur, orig, kind, seen, todo, out, fetches, fetched, phase>>

\* start unwinding the resolved declaration
StartMain(decl) ==
  /\ pc' = "unwind"
  /\ phase' = "main"
  /\ cur' = decl
  /\ orig' = decl
  /\ kind' = kindString(categorize_decl(engine, decl))
  /\ slot' = SlotAfterCategorize(engine, slot, decl)
  /\ UNCHANGED <<seen, todo, out, result, fetches, fetched>>

NullDetails == [NoResult EXCEPT !.type = "null"]

\* the get_std_lib_item handler: try { markdown } catch (error) { a text
\* content "Error getting standard library item: ..." }
StdLibItemReply(thrown) ==
  IF thrown THEN "Error getting standard library item" ELSE "markdown"

\* renderDecl / renderNamespaceMarkdown threw on a category they do not know
FaultResult == [NoResult EXCEPT !.type = "fault", !.reply = StdLibItemReply(TRUE)]
\* an engine call inside getItemDetails / listMembers threw: no handler of
\* zig-docs-base.ts or mcp.ts catches it
ThrownResult == [NoResult EXCEPT !.type = "thrown"]
NotFoundResult == [NoResult EXCEPT !.type = "notfound", !.reply = "Declaration not found"]
ListResult == [NoResult EXCEPT !.type = "list"]
EmptyList == [ListResult EXCEPT !.reply = "No members found"]

\* a handler that answers every request with a document
DocReply_AlwaysMarkdown(details) == "markdown"

\* the get_std_doc_item handler's answer to what getItemDetails returned
DocReply(details) ==
  IF details.type = "null" THEN "No documentation found" ELSE "markdown"


\* one more get_aliasee call of the current unwinding, from handle h
NoteFetch(h) ==
  /\ fetches' = IF fetches <= NumDecls THEN fetches + 1 ELSE fetches
  /\ fetched' = fetched \cup {h}

PlainOps == {"getItemDetails", "McpGetItemDetails", "listMembers", "McpListMembers"}

\* a loop body that reads the kind of the handle it came from
AliasHop_StaleKind(e, s, h, recategorize) ==
  LET s1 == IF recategorize THEN SlotAfterCategorize(e, s, h) ELSE s
      nxt == get_aliasee(e, s1)
  IN [cur |-> nxt,
      kind |-> kindString(categorize_decl(e, h)),
      slot |-> SlotAfterCategorize(e, s1, nxt)]

\* a loop body that categorizes another declaration (the first alias of the
\* index) between the categorize of h and the fetch
AliasHop_CategorizeBetween(e, s, h, recategorize) ==
  LET g == CHOOSE x \in Handles :
             e.cat[x] = CAT_alias /\ \A y \in Handles : e.cat[y] = CAT_alias => x <= y
      nxt == get_aliasee(e, SlotAfterCategorize(e, s, g))
  IN [cur |-> nxt,
      kind |-> kindString(categorize_decl(e, nxt)),
      slot |-> SlotAfterCategorize(e, g, nxt)]

\* the body of the alias loop from handle h: zig-docs-base.ts categorizes h
\* once more before the fetch, mcp.ts relies on the categorize that preceded
AliasHop(e, s, h, recategorize) ==
  LET s1 == IF recategorize THEN SlotAfterCategorize(e, s, h) ELSE s
      nxt == get_aliasee(e, s1)
  IN [cur |-> nxt,
      kind |-> kindString(categorize_decl(e, nxt)),
      slot |-> SlotAfterCategorize(e, s1, nxt)]

(***************************************************************************)
(* The requests.                                                           *)
(***************************************************************************)
\* get_std_doc_item -> getItemDetails(fqn) of zig-docs-base.ts, up to the
\* first categorize of the resolved declaration
getItemDetails(fqn) ==
  /\ pc = "idle"
  /\ op' = "getItemDetails"
  /\ input' = fqn
  /\ LET r == ResolveItem(engine, fqn)
     IN /\ probes' = r.probes
        /\ decl_index' = r.decl
        /\ IF r.decl = Absent
             THEN Fail([NullDetails EXCEPT !.reply = DocReply(NullDetails)]) /\ slot' = slot
             ELSE StartMain(r.decl)
  /\ UNCHANGED <<auxVars, engine, membersOp>>

\* getItemDetails(fqn) of mcp.ts
McpGetItemDetails(fqn) ==
  /\ pc = "idle"
  /\ op' = "McpGetItemDetails"
  /\ input' = fqn
  /\ LET r == ResolveMcp(engine, fqn)
     IN /\ probes' = r.probes
        /\ decl_index' = r.decl
        /\ IF r.decl = Absent
             THEN Fail([NullDetails EXCEPT !.reply = DocReply(NullDetails)]) /\ slot' = slot
             ELSE StartMain(r.decl)
  /\ UNCHANGED <<auxVars, engine, membersOp>>

\* listMembers(fqn) of zig-docs-base.ts, up to the first categorize of the
\* first child
listMembers(fqn) ==
  /\ pc = "idle"
  /\ op' = "listMembers"
  /\ input' = fqn
  /\ IF IsRootInput(fqn)
       THEN /\ probes' = << >>
            /\ decl_index' = Absent
            /\ Continue(slot, engine.query, << >>, ListResult, TRUE)
       ELSE LET r == ResolveList(engine, fqn)
            IN /\ probes' = r.probes
               /\ decl_index' = r.decl
               /\ IF r.decl = Absent
                    THEN Fail(EmptyList) /\ slot' = slot
                    ELSE Continue(SlotAfterCategorize(engine, slot, r.decl),
                                  ListChildren(engine, r.decl), << >>, ListResult, FALSE)
               /\ membersOp' =
                    IF r.decl = Absent THEN membersOp
                    ELSE [fn |-> MembersOp("listMembers",
                                           kindString(categorize_decl(engine, r.decl))),
                          on |-> r.decl]
  /\ IsRootInput(fqn) => membersOp' = membersOp
  /\ UNCHANGED <<auxVars, engine>>

\* listMembers(fqn) of mcp.ts
McpListMembers(fqn) ==
  /\ pc = "idle"
  /\ op' = "McpListMembers"
  /\ input' = fqn
  /\ LET r == ResolveMcp(engine, fqn)
     IN /\ probes' = r.probes
        /\ decl_index' = r.decl
        /\ IF r.decl = Absent
             THEN Fail(EmptyList) /\ slot' = slot
             ELSE Continue(slot, namespaceMembers(engine, r.decl), << >>, ListResult, FALSE)
        /\ membersOp' = IF r.decl = Absent THEN membersOp
                        ELSE [fn |-> MembersOp("McpListMembers", ""), on |-> r.decl]
  /\ UNCHANGED <<auxVars, engine>>

\* getStdLibItem(wasmPath, stdSources, name) of the docs viewer, rendering
\* the declaration: findDecl(name), then renderDecl
getStdLibItem(name, getSourceFile) ==
  /\ pc = "idle"
  /\ op' = IF getSourceFile THEN "getStdLibSource" ELSE "getStdLibItem"
  /\ input' = name
  /\ LET r == find_decl(engine, name)
     IN /\ probes' = <<name>>
        /\ decl_index' = r
        /\ IF r = Absent
             THEN Fail(NotFoundResult) /\ slot' = slot
             ELSE StartMain(r)
  /\ UNCHANGED <<auxVars, engine, membersOp>>

\* one iteration of  while (kind === "alias") { categorize_decl(real_index);
\* real_index = get_aliasee(); kind = kindString(categorizeDecl(real_index)) }
StepAliasLoop ==
  /\ pc = "unwind"
  /\ op \in PlainOps
  /\ kind = "alias"
  /\ LET hop == AliasHop(engine, slot, cur, op \in {"getItemDetails", "listMembers"})
     IN /\ cur' = hop.cur
        /\ slot' = hop.slot
        /\ IF Traps(engine, hop.cur)
             THEN pc' = "done" /\ result' = ThrownResult /\ kind' = ""
             ELSE kind' = hop.kind /\ UNCHANGED <<pc, result>>
  /\ NoteFetch(cur)
  /\ UNCHANGED <<auxVars, engine, membersOp, op, phase, input, probes, decl_index, orig, seen,
                 todo, out>>

\* the CAT_alias case of renderDecl
StepRenderDecl ==
  /\ pc = "unwind"
  /\ op = "getStdLibItem"
  /\ phase = "main"
  /\ kind = "alias"
  /\ IF cur \in seen
       THEN Fail(NotFoundResult) /\ slot' = slot
       ELSE LET aliasee == get_aliasee(engine, slot)
            IN /\ seen' = seen \cup {cur}
               /\ NoteFetch(cur)
               /\ IF aliasee = Absent
                    THEN /\ pc' = "done"
                         /\ result' = NotFoundResult
                         /\ UNCHANGED <<cur, kind, slot>>
                    ELSE /\ cur' = aliasee
                         /\ kind' = kindString(categorize_decl(engine, aliasee))
                         /\ slot' = SlotAfterCategorize(engine, slot, aliasee)
                         /\ UNCHANGED <<pc, result>>
               /\ UNCHANGED <<orig, todo, out, phase>>
  /\ UNCHANGED <<auxVars, engine, membersOp, op, input, probes, decl_index>>

\* the CAT_alias case of renderNamespaceMarkdown
StepPageMember ==
  /\ pc = "unwind"
  /\ op = "getStdLibItem"
  /\ phase = "member"
  /\ kind = "alias"
  /\ IF cur \in seen
       THEN Continue(slot, todo, Append(out, Entry(engine, orig, cur, kind)), result, FALSE)
       ELSE LET member == get_aliasee(engine, slot)
            IN /\ seen' = seen \cup {cur}
               /\ NoteFetch(cur)
               /\ cur' = member
               /\ slot' = SlotAfterCategorize(engine, slot, member)
               /\ IF Traps(engine, member)
                    THEN pc' = "done" /\ result' = FaultResult /\ kind' = ""
                    ELSE /\ kind' = kindString(categorize_decl(engine, member))
                         /\ UNCHANGED <<pc, result>>
               /\ UNCHANGED <<orig, todo, out, phase>>
  /\ UNCHANGED <<auxVars, engine, membersOp, op, input, probes, decl_index>>

\* the end of the getSourceFile branch of getStdLibItem, at handle h:
\* decl_file_path(h), findFileRoot(filePath), decl_source_html(fileDecl);
\* found tells whether the engine knows the file of h
SourceResult(e, h, found) ==
  IF found
    THEN [type |-> "source", title |-> fullyQualifiedName(e, h),
          kind |-> kindString(categorize_decl(e, h)), real |-> h,
          items |-> << >>, reply |-> "markdown"]
    ELSE [NoResult EXCEPT !.type = "nosource",
                          !.reply = "Could not find source file"]

\* one iteration of the alias loop of the getSourceFile branch, which leaves
\* the loop (break) on a handle seen before, on an aliasee of -1 and on an
\* aliasee equal to the handle itself, and then goes on with cur
StepSourceLoop ==
  /\ pc = "unwind"
  /\ op = "getStdLibSource"
  /\ kind = "alias"
  /\ LET next == get_aliasee(engine, slot)
         stop == cur \in seen \/ next = Absent \/ next = cur
     IN /\ IF cur \in seen
             THEN UNCHANGED <<seen, fetches, fetched>>
             ELSE seen' = seen \cup {cur} /\ NoteFetch(cur)
        /\ IF stop
             THEN /\ pc' = "done"
                  /\ \E found \in BOOLEAN : result' = SourceResult(engine, cur, found)
                  /\ UNCHANGED <<cur, kind, slot>>
             ELSE /\ cur' = next
                  /\ kind' = kindString(categorize_decl(engine, next))
                  /\ slot' = SlotAfterCategorize(engine, slot, next)
                  /\ UNCHANGED <<pc, result>>
  /\ UNCHANGED <<auxVars, engine, membersOp, op, phase, input, probes, decl_index, orig, todo, out>>

\* the getSourceFile branch once categorize_decl(cur) is not alias
RenderSource ==
  /\ pc = "unwind"
  /\ op = "getStdLibSource"
  /\ kind # "alias"
  /\ pc' = "done"
  /\ \E found \in BOOLEAN : result' = SourceResult(engine, cur, found)
  /\ UNCHANGED <<auxVars, engine, membersOp, slot, op, phase, input, probes, decl_index, cur, orig,
                 kind, seen, todo, out, fetches, fetched>>

\* getItemDetails once the alias loop has ended: title, kind and the member
\* list of the unwound declaration
RenderItem ==
  /\ pc = "unwind"
  /\ op \in {"getItemDetails", "McpGetItemDetails"}
  /\ phase = "main"
  /\ kind # "alias"
  /\ LET title == IF op = "getItemDetails"
                    THEN DisplayName(engine, input, decl_index, cur)
                    ELSE RootToStd(fullyQualifiedName(engine, cur))
         members == IF op = "getItemDetails" THEN ItemMembers(engine, cur, kind)
                                             ELSE McpItemMembers(engine, cur, kind)
         details == [type |-> "doc", title |-> title, kind |-> kind, real |-> cur,
                     items |-> << >>, reply |-> ""]
     IN Continue(slot, members, << >>,
                 [details EXCEPT !.reply = DocReply(details)], FALSE)
  /\ membersOp' = IF MembersOp(op, kind) = "" THEN membersOp
                  ELSE [fn |-> MembersOp(op, kind), on |-> cur]
  /\ UNCHANGED <<auxVars, engine, op, input, probes, decl_index>>

\* renderDecl's dispatch on a category that is not alias: the page of the
\* declaration
RenderPage ==
  /\ pc = "unwind"
  /\ op = "getStdLibItem"
  /\ phase = "main"
  /\ kind # "alias"
  /\ IF kind = "unknown"
       THEN Fail(FaultResult) /\ slot' = slot
       ELSE Continue(slot, PageMembers(engine, cur, kind), << >>,
                     [type |-> "doc", title |-> declIndexName(engine, cur),
                      kind |-> kind, real |-> cur, items |-> << >>,
                      reply |-> StdLibItemReply(FALSE)], FALSE)
  /\ membersOp' = IF MembersOp(op, kind) = "" THEN membersOp
                  ELSE [fn |-> MembersOp(op, kind), on |-> cur]
  /\ UNCHANGED <<auxVars, engine, op, input, probes, decl_index>>

\* a child whose alias chain has ended is added to the output
PushMember ==
  /\ pc = "unwind"
  /\ phase = "member"
  /\ kind # "alias"
  /\ IF op = "getStdLibItem" /\ kind = "unknown"
       THEN Fail(FaultResult) /\ slot' = slot
       ELSE Continue(slot, todo, Append(out, Entry(engine, orig, cur, kind)), result,
                     IsRootListing)
  /\ UNCHANGED <<auxVars, engine, membersOp, op, input, probes, decl_index>>

\* the answer has been sent; the server waits for the next request
Return ==
  /\ pc = "done"
  /\ pc' = "idle"
  /\ op' = "none"
  /\ phase' = "none"
  /\ input' = << >>
  /\ probes' = << >>
  /\ decl_index' = Absent
  /\ cur' = Absent
  /\ orig' = Absent
  /\ kind' = ""
  /\ seen' = {}
  /\ todo' = << >>
  /\ out' = << >>
  /\ result' = NoResult
  /\ fetches' = 0
  /\ fetched' = {}
  /\ membersOp' = NoMembersOp
  /\ UNCHANGED <<auxVars, engine, slot>>

Next ==
  \/ \E fqn \in UserNames : getItemDetails(fqn)
  \/ \E fqn \in UserNames : McpGetItemDetails(fqn)
  \/ \E fqn \in UserNames : listMembers(fqn)
  \/ \E fqn \in UserNames : McpListMembers(fqn)
  \/ \E name \in UserNames, getSourceFile \in BOOLEAN : getStdLibItem(name, getSourceFile)
  \/ StepAliasLoop
  \/ StepRenderDecl
  \/ StepPageMember
  \/ StepSourceLoop
  \/ RenderSource
  \/ RenderItem
  \/ RenderPage
  \/ PushMember
  \/ Return

Spec == Init /\ [][Next]_vars


(***************************************************************************)
(* The sections of a page.  What the engine reports for the declaration is *)
(* kept as sizes: proto, doctest and source are the lengths of the strings *)
(* decl_fn_proto_html, decl_doctest_html and decl_source_html answer,      *)
(* params and errors the lengths of the lists, errorSet the node           *)
(* fn_error_set answers (0: the function declares none), members and       *)
(* fields the numbers of member functions and of fields.                   *)
(***************************************************************************)
TextLengths == {0, 1}
RenderKinds == {"function", "type_function", "error_set", "global_const", "namespace"}

Contents ==
  [kind : RenderKinds, proto : TextLengths, params : 0..MaxParams,
   errorSet : {0, 1}, errors : 0..MaxErrors, doctest : TextLengths,
   source : TextLengths, members : {0, 1}, fields : {0, 1}]

Heading(cond, h) == IF cond THEN <<h>> ELSE << >>

\* fnErrorSet: the node, null (Absent) for 0
fnErrorSet(d) == IF d.errorSet = 0 THEN Absent ELSE d.errorSet

\* an Errors heading whatever the length of the error list
renderFunction_EmptyErrors(d) ==
  Heading(d.proto > 0, "Function Signature")
    \o Heading(d.params > 0, "Parameters")
    \o Heading(fnErrorSet(d) # Absent, "Errors")
    \o Heading(d.doctest > 0, "Example Usage")
    \o Heading(d.source > 0, "Source Code")

renderFunction(d) ==
  Heading(d.proto > 0, "Function Signature")
    \o Heading(d.params > 0, "Parameters")
    \o Heading(fnErrorSet(d) # Absent /\ d.errors > 0, "Errors")
    \o Heading(d.doctest > 0, "Example Usage")
    \o Heading(d.source > 0, "Source Code")

renderGlobal(d) == Heading(d.source > 0, "Source Code")

\* the headings of renderNamespaceMarkdown for member functions and fields
renderNamespaceMarkdown(d) ==
  Heading(d.members > 0, "Functions") \o Heading(d.fields > 0, "Fields")

renderNamespacePage(d) == renderNamespaceMarkdown(d)

renderTypeFunction(d) ==
  Heading(d.params > 0, "Parameters")
    \o Heading(d.doctest > 0, "Example Usage")
    \o (IF d.members # 0 \/ d.fields # 0
          THEN renderNamespaceMarkdown(d)
          ELSE Heading(d.source > 0, "Source Code"))

renderErrorSetPage(d) == Heading(d.errors > 0, "Errors")

\* the dispatch of renderDecl on the category of the unwound declaration
renderDecl(d) ==
  CASE d.kind = "namespace" -> renderNamespacePage(d)
    [] d.kind = "function" -> renderFunction(d)
    [] d.kind = "type_function" -> renderTypeFunction(d)
    [] d.kind = "error_set" -> renderErrorSetPage(d)
    [] OTHER -> renderGlobal(d)

\* the markdown getItemDetails builds below the title
ItemMarkdown(d, include_source) ==
  Heading(d.params > 0, "Parameters")
    \o Heading(d.errorSet # 0 /\ d.errors > 0, "Errors")
    \o Heading(d.doctest > 0, "Example usage")
    \o Heading(include_source /\ d.source > 0, "Source code")
    \o (IF d.kind \in {"namespace", "container", "type_function"}
          THEN Heading(d.members > 0, "Functions")
          ELSE << >>)

\* the docs viewer renders the page of the declaration
RenderDeclPage ==
  /\ rendered = NoPage
  /\ rendered' = [by |-> "renderDecl", include_source |-> FALSE,
                  headings |-> renderDecl(content)]
  /\ UNCHANGED <<outsideRender, content>>

\* getItemDetails renders the markdown of the declaration
RenderItemMarkdown(include_source) ==
  /\ rendered = NoPage
  /\ rendered' = [by |-> "getItemDetails", include_source |-> include_source,
                  headings |-> ItemMarkdown(content, include_source)]
  /\ UNCHANGED <<outsideRender, content>>

\* an index no request is served from
IdleEngine ==
  [cat |-> [h \in Handles |-> NativeCat(h)],
   aliasee |-> [h \in Handles |-> Absent],
   fqn |-> [h \in Handles |-> FillerName(h)],
   children |-> [h \in Handles |-> << >>],
   query |-> << >>,
   root |-> 0]

ApiIdle == engine = IdleEngine /\ ApiStart

InitRender ==
  /\ ApiIdle
  /\ ViewerIdle
  /\ SearchIdle
  /\ BuiltinIdle
  /\ DocsIdle
  /\ LoadIdle
  /\ content \in Contents
  /\ rendered = NoPage

NextRender ==
  \/ RenderDeclPage
  \/ \E include_source \in BOOLEAN : RenderItemMarkdown(include_source)

SpecRender == InitRender /\ [][NextRender]_vars


(***************************************************************************)
(* Concurrent calls of searchStdLib and getStdLibItem.  Both are async     *)
(* functions: the code between two awaits runs without interruption, and   *)
(* at an await any other call may run.  Every call instantiates its own    *)
(* engine (instance c for call c) and stores it in the module-level        *)
(* wasm_exports, which the helpers (setInputString, findDecl, executeQuery,*)
(* renderDecl ...) read.                                                   *)
(***************************************************************************)
\* the points at which the functions wait: await import("node:fs") and
\* await WebAssembly.instantiate(...)
Awaits_AlsoBeforeExec == {"import", "instantiate", "exec"}

Awaits == {"import", "instantiate"}

\* the event loop: a call at position p may take its next step
MayStep(c, p) ==
  /\ calls[c].pc = p
  /\ IF p = "idle" \/ p \in Awaits THEN running = 0 ELSE running = c

\* the call moves on to position q, giving up the thread if it waits there
MoveTo(c, q, exports) ==
  /\ calls' = [calls EXCEPT ![c].pc = q, ![c].exports = exports]
  /\ running' = IF q \in Awaits \/ q = "returned" THEN 0 ELSE c

EngineOp(c, instance, name, wrote) ==
  [call |-> c, instance |-> instance, name |-> name, wrote |-> wrote]

\* searchStdLib(...) / getStdLibItem(...) is called: await import("node:fs")
Invoke(c, fn) ==
  /\ MayStep(c, "idle")
  /\ calls' = [calls EXCEPT ![c].pc = "import", ![c].fn = fn]
  /\ running' = 0
  /\ UNCHANGED <<outsideViewer, wasm_exports, scratch, oplog>>

\* fs.readFileSync(wasmPath); await WebAssembly.instantiate(wasmBytes, ...)
Instantiate(c) ==
  /\ MayStep(c, "import")
  /\ MoveTo(c, "instantiate", 0)
  /\ UNCHANGED <<outsideViewer, wasm_exports, scratch, oplog>>

\* const exports = wasmModule.instance.exports; wasm_exports = exports
StoreExports(c) ==
  /\ MayStep(c, "instantiate")
  /\ MoveTo(c, "unpack", c)
  /\ wasm_exports' = c
  /\ UNCHANGED <<outsideViewer, scratch, oplog>>

\* exports.alloc, exports.unpack(ptr, stdSources.length)
Unpack(c) ==
  /\ MayStep(c, "unpack")
  /\ MoveTo(c, "input", calls[c].exports)
  /\ oplog' = Append(oplog, EngineOp(c, calls[c].exports, "unpack", 0))
  /\ UNCHANGED <<outsideViewer, wasm_exports, scratch>>

\* setInputString(name) / setQueryString(query): the string goes to the
\* scratch memory of wasm_exports
WriteInput(c) ==
  /\ MayStep(c, "input")
  /\ wasm_exports # 0
  /\ MoveTo(c, "exec", calls[c].exports)
  /\ scratch' = [scratch EXCEPT ![wasm_exports] = c]
  /\ oplog' = Append(oplog, EngineOp(c, wasm_exports, "write", c))
  /\ UNCHANGED <<outsideViewer, wasm_exports>>

\* wasm_exports.find_decl() / wasm_exports.query_exec(ignore_case): consumes
\* the string in the scratch memory of wasm_exports
Exec(c) ==
  /\ MayStep(c, "exec")
  /\ wasm_exports # 0
  /\ MoveTo(c, "render", calls[c].exports)
  /\ oplog' = Append(oplog, EngineOp(c, wasm_exports, "exec", scratch[wasm_exports]))
  /\ UNCHANGED <<outsideViewer, wasm_exports, scratch>>

\* renderDecl(decl_index) / fullyQualifiedName(match): the rest of the call
Render(c) ==
  /\ MayStep(c, "render")
  /\ wasm_exports # 0
  /\ MoveTo(c, "returned", calls[c].exports)
  /\ oplog' = Append(oplog, EngineOp(c, wasm_exports, "render", 0))
  /\ UNCHANGED <<outsideViewer, wasm_exports, scratch>>

InitViewer ==
  /\ ApiIdle
  /\ RenderIdle
  /\ ViewerIdle
  /\ SearchIdle
  /\ BuiltinIdle
  /\ DocsIdle
  /\ LoadIdle

NextViewer ==
  \/ \E c \in Calls, fn \in {"searchStdLib", "getStdLibItem"} : Invoke(c, fn)
  \/ \E c \in Calls : Instantiate(c)
  \/ \E c \in Calls : StoreExports(c)
  \/ \E c \in Calls : Unpack(c)
  \/ \E c \in Calls : WriteInput(c)
  \/ \E c \in Calls : Exec(c)
  \/ \E c \in Calls : Render(c)

SpecViewer == InitViewer /\ [][NextViewer]_vars


(***************************************************************************)
(* Search.  The engine's full-text query is opaque: for the query at hand  *)
(* it has one list of matches when asked to ignore case and one when not.  *)
(***************************************************************************)
\* the strings a caller may search for
Queries == { EmptyString, <<IdFs>>, <<IdCamel>>, <<IdHump>>, <<IdCamelSnake>>,
             <<SegStd, IdFs>>, <<SegStd, IdHump>> }

Matches(n) == {q \in SeqsUpTo(Handles, n) : IsInjective(q)}

\* an index with names below root.std
SearchEngine == [IdleEngine EXCEPT !.fqn = [h \in Handles |-> LayoutName(StdLayout, h)]]

\* a search that always ignores case
IgnoreCase_Always(q) == TRUE

\* const ignoreCase = query.toLowerCase() === query
IgnoreCase(q) == [i \in 1..Len(q) |-> toLowerCase(q[i])] = q

\* executeQuery(query_string, ignore_case): setQueryString, query_exec
executeQuery(a, ignore_case) == IF ignore_case THEN a.insensitive ELSE a.sensitive

Min(a, b) == IF a <= b THEN a ELSE b

\* search(query) of the StdApi
search ==
  /\ searched = NoMatches
  /\ LET ignoreCase == IgnoreCase(query)
         results == executeQuery(answers, ignoreCase)
     IN searched' = [by |-> "search", ignore_case |-> ignoreCase, total |-> Len(results),
                  entries |-> [i \in 1..Len(results) |->
                                 [name |-> fullyQualifiedName(engine, results[i]),
                                  kind |-> kindString(categorize_decl(engine, results[i]))]]]
  /\ UNCHANGED <<outsideSearch, query, answers>>

\* searchStdLib(wasmPath, stdSources, query, limit) of the docs viewer
searchStdLib(limit) ==
  /\ searched = NoMatches
  /\ LET ignoreCase == IgnoreCase(query)
         results == executeQuery(answers, ignoreCase)
         limitedResults == SubSeq(results, 1, Min(limit, Len(results)))
     IN searched' = [by |-> "searchStdLib", ignore_case |-> ignoreCase,
                  total |-> Len(results),
                  entries |-> [i \in 1..Len(limitedResults) |->
                                 [name |-> fullyQualifiedName(engine, limitedResults[i]),
                                  kind |-> ""]]]
  /\ UNCHANGED <<outsideSearch, query, answers>>

InitSearch ==
  /\ engine = SearchEngine
  /\ ApiStart
  /\ RenderIdle
  /\ ViewerIdle
  /\ BuiltinIdle
  /\ DocsIdle
  /\ LoadIdle
  /\ query \in Queries
  /\ answers \in [sensitive : Matches(MaxExact), insensitive : Matches(MaxQuery)]
  /\ searched = NoMatches

NextSearch ==
  \/ search
  \/ \E limit \in {SmallLimit, DefaultLimit} : searchStdLib(limit)

SpecSearch == InitSearch /\ [][NextSearch]_vars


(***************************************************************************)
(* The get_builtin_function tool.  A function name is a string of          *)
(* characters; the list of builtin functions is loaded once and only read. *)
(***************************************************************************)
Pad(n) == [i \in 1..n |-> "x"]

\* names of builtin functions: short ones, one differing in case only, and
\* one longer than fifty characters
BuiltinNames == { <<"a","b">>, <<"A","B">>, <<"a","b","c">>, <<"c","A","b">>,
                  <<"a","b">> \o Pad(49) }

\* what a caller may pass as function_name
BuiltinQueries == { << >>, <<" ">>, <<" ","\t">>, <<"a","b">>, <<" ","A","b"," ">>,
                    <<"a","b","c">>, <<"b">>, <<"c">>, <<"z">>, <<"a","b">> \o Pad(49) }

WhiteSpace == {" ", "\t"}

\* String.prototype.trim
RECURSIVE trim(_)
trim(s) ==
  IF s = << >> THEN s
  ELSE IF s[1] \in WhiteSpace THEN trim(Tail(s))
  ELSE IF s[Len(s)] \in WhiteSpace THEN trim(SubSeq(s, 1, Len(s) - 1))
  ELSE s

\* String.prototype.startsWith / includes
startsWith(s, q) == Len(q) <= Len(s) /\ SubSeq(s, 1, Len(q)) = q
includes(s, q) == \E k \in 0..(Len(s) - Len(q)) : SubSeq(s, k + 1, k + Len(q)) = q

Max(a, b) == IF a >= b THEN a ELSE b

\* a bonus that grows twenty times as fast
Bonus_Scaled(func) == 20 * Max(0, 50 - Len(func))

\* Math.max(0, 50 - fn.func.length)
Bonus(func) == Max(0, 50 - Len(func))

\* the score of one builtin function for the lower-cased, trimmed query
Score(func, queryLower) ==
  LET funcLower == toLowerCase(func)
      score == IF funcLower = queryLower THEN 1000
               ELSE IF startsWith(funcLower, queryLower) THEN 500
               ELSE IF includes(funcLower, queryLower) THEN 300
               ELSE 0
  IN IF score > 0 THEN score + Bonus(func) ELSE score

\* Array.prototype.sort with (a, b) => b.score - a.score: stable
\* x, which stood before all of sorted, goes in front of the first entry that
\* does not score more
RECURSIVE InsertByScore(_, _)
InsertByScore(x, sorted) ==
  IF sorted = << >> THEN <<x>>
  ELSE IF Head(sorted).score - x.score <= 0 THEN <<x>> \o sorted
  ELSE <<Head(sorted)>> \o InsertByScore(x, Tail(sorted))

\* a result list left in the order the functions were loaded
SortByScore_AsLoaded(fns) == fns

RECURSIVE SortByScore(_)
SortByScore(fns) ==
  IF fns = << >> THEN << >>
  ELSE InsertByScore(Head(fns), SortByScore(Tail(fns)))

\* function_name: z.string().min(1, "Query cannot be empty")
InputSchema(args) == args.given /\ Len(args.function_name) >= 1

\* the handler of get_builtin_function
BuiltinHandler(args) ==
  LET queryLower == trim(toLowerCase(args.function_name))
      scored == [i \in 1..Len(builtinFunctions) |->
                   [func |-> builtinFunctions[i],
                    score |-> Score(builtinFunctions[i], queryLower)]]
      scoredFunctions == SortByScore(SelectSeq(scored, LAMBDA fn : fn.score > 0))
  IN IF queryLower = << >>
       THEN [kind |-> "prompt", isError |-> FALSE, listed |-> << >>]
     ELSE IF scoredFunctions = << >>
       THEN [kind |-> "none", isError |-> FALSE, listed |-> << >>]
     ELSE [kind |-> "results", isError |-> FALSE, listed |-> scoredFunctions]

\* a tools/call request for get_builtin_function: the arguments are checked
\* against the input schema, then handed to the handler
get_builtin_function ==
  /\ response = NoResponse
  /\ response' = IF InputSchema(arguments)
                   THEN BuiltinHandler(arguments)
                   ELSE [kind |-> "invalid", isError |-> TRUE, listed |-> << >>]
  /\ UNCHANGED <<outsideBuiltin, builtinFunctions, arguments>>

InitBuiltin ==
  /\ ApiIdle
  /\ RenderIdle
  /\ ViewerIdle
  /\ SearchIdle
  /\ DocsIdle
  /\ LoadIdle
  /\ builtinFunctions \in {fns \in SeqsUpTo(BuiltinNames, MaxBuiltins) : IsInjective(fns)}
  /\ arguments \in {NoArguments} \cup [given : {TRUE}, function_name : BuiltinQueries]
  /\ response = NoResponse

NextBuiltin == get_builtin_function

SpecBuiltin == InitBuiltin /\ [][NextBuiltin]_vars


(***************************************************************************)
(* ensureDocs.  The content of a downloaded file is the revision of the    *)
(* documentation it was taken from; metadata.json holds lastUpdate.  Time  *)
(* advances in steps of half a day.                                        *)
(***************************************************************************)
Revisions == 0..MaxRevision
HalfDay == 12 * 60 * 60 * 1000

\* const dayInMs = 24 * 60 * 60 * 1000
dayInMs == 24 * 60 * 60 * 1000

UpdatePolicy == {"manual", "daily", "startup"}

\* extractBuiltinFunctions(zigVersion, isMcpMode, forceUpdate) on cache c, the
\* download succeeding or not: the cached builtin-functions.json is used if
\* it exists and parses, unless forceUpdate
extractBuiltinFunctions(c, forceUpdate, ok) ==
  IF c.builtins # Missing /\ ~forceUpdate /\ c.builtins # Unreadable
    THEN [thrown |-> FALSE, fetched |-> {}, wrote |-> {}, cache |-> c,
          builtins |-> c.builtins]
  ELSE IF ~ok
    THEN [thrown |-> TRUE, fetched |-> {"builtins"}, wrote |-> {}, cache |-> c,
          builtins |-> Missing]
  ELSE [thrown |-> FALSE, fetched |-> {"builtins"}, wrote |-> {"builtin-functions.json"},
        cache |-> [c EXCEPT !.builtins = upstream], builtins |-> upstream]

\* downloadSourcesTar(zigVersion, isMcpMode, forceUpdate) on cache c
downloadSourcesTar(c, forceUpdate, ok) ==
  IF c.sources # Missing /\ ~forceUpdate
    THEN [thrown |-> FALSE, fetched |-> {}, wrote |-> {}, cache |-> c]
  ELSE IF ~ok
    THEN [thrown |-> TRUE, fetched |-> {"sources"}, wrote |-> {}, cache |-> c]
  ELSE [thrown |-> FALSE, fetched |-> {"sources"}, wrote |-> {"sources.tar"},
        cache |-> [c EXCEPT !.sources = upstream]]

\* a decision that updates on every start unless the policy is manual
shouldUpdate_UnlessManual(updatePolicy) == updatePolicy # "manual"

\* the decision ensureDocs takes from the policy and metadata.json
shouldUpdate(updatePolicy) ==
  IF updatePolicy = "startup" THEN TRUE
  ELSE IF updatePolicy = "daily"
    THEN IF cache.metadata = Missing THEN TRUE
         ELSE IF cache.metadata = Unreadable THEN TRUE
         ELSE now - cache.metadata >= dayInMs
  ELSE FALSE

\* an ensureDocs that records lastUpdate before sources.tar has arrived
ensureDocs_MetadataFirst(updatePolicy, okHtml, okTar) ==
  /\ LET update == shouldUpdate(updatePolicy)
         extracted == extractBuiltinFunctions(cache, FALSE, okHtml)
         downloaded == downloadSourcesTar(extracted.cache, TRUE, okTar)
     IN IF ~update \/ extracted.thrown
          THEN /\ cache' = extracted.cache
               /\ ensured' = [policy |-> updatePolicy, update |-> update,
                              status |-> IF extracted.thrown THEN "thrown" ELSE "returned",
                              fetched |-> extracted.fetched,
                              wrote |-> extracted.wrote,
                              builtinFunctions |-> extracted.builtins]
        ELSE IF downloaded.thrown
          THEN /\ cache' = [downloaded.cache EXCEPT !.metadata = now]
               /\ ensured' = [policy |-> updatePolicy, update |-> update,
                              status |-> "thrown",
                              fetched |-> extracted.fetched \cup downloaded.fetched,
                              wrote |-> extracted.wrote,
                              builtinFunctions |-> Missing]
        ELSE /\ cache' = [downloaded.cache EXCEPT !.metadata = now]
             /\ ensured' = [policy |-> updatePolicy, update |-> update,
                            status |-> "returned",
                            fetched |-> extracted.fetched \cup downloaded.fetched,
                            wrote |-> extracted.wrote \cup downloaded.wrote
                                        \cup {"metadata.json"},
                            builtinFunctions |-> extracted.builtins]
  /\ UNCHANGED <<outsideDocs, upstream, now>>

\* ensureDocs(zigVersion, updatePolicy, isMcpMode); okHtml and okTar tell
\* whether the two downloads succeed
ensureDocs(updatePolicy, okHtml, okTar) ==
  /\ LET update == shouldUpdate(updatePolicy)
         extracted == extractBuiltinFunctions(cache, FALSE, okHtml)
         downloaded == downloadSourcesTar(extracted.cache, TRUE, okTar)
     IN IF ~update \/ extracted.thrown
          THEN /\ cache' = extracted.cache
               /\ ensured' = [policy |-> updatePolicy, update |-> update,
                              status |-> IF extracted.thrown THEN "thrown" ELSE "returned",
                              fetched |-> extracted.fetched,
                              wrote |-> extracted.wrote,
                              builtinFunctions |-> extracted.builtins]
        ELSE IF downloaded.thrown
          THEN /\ cache' = downloaded.cache
               /\ ensured' = [policy |-> updatePolicy, update |-> update,
                              status |-> "thrown",
                              fetched |-> extracted.fetched \cup downloaded.fetched,
                              wrote |-> extracted.wrote,
                              builtinFunctions |-> Missing]
        ELSE /\ cache' = [downloaded.cache EXCEPT !.metadata = now]
             /\ ensured' = [policy |-> updatePolicy, update |-> update,
                            status |-> "returned",
                            fetched |-> extracted.fetched \cup downloaded.fetched,
                            wrote |-> extracted.wrote \cup downloaded.wrote
                                        \cup {"metadata.json"},
                            builtinFunctions |-> extracted.builtins]
  /\ UNCHANGED <<outsideDocs, upstream, now>>

\* ziglang.org publishes a new revision of the documentation
Publish ==
  /\ upstream < MaxRevision
  /\ upstream' = upstream + 1
  /\ UNCHANGED <<outsideDocs, cache, now, ensured>>

\* half a day passes
Tick ==
  /\ now < MaxTicks * HalfDay
  /\ now' = now + HalfDay
  /\ UNCHANGED <<outsideDocs, cache, upstream, ensured>>

\* a cache file is damaged on disk
Damage ==
  /\ \/ cache.builtins \in Revisions /\ cache' = [cache EXCEPT !.builtins = Unreadable]
     \/ cache.metadata \notin {Missing, Unreadable}
          /\ cache' = [cache EXCEPT !.metadata = Unreadable]
  /\ UNCHANGED <<outsideDocs, upstream, now, ensured>>

InitDocs ==
  /\ ApiIdle
  /\ RenderIdle
  /\ ViewerIdle
  /\ SearchIdle
  /\ BuiltinIdle
  /\ DocsIdle
  /\ LoadIdle

NextDocs ==
  \/ \E updatePolicy \in UpdatePolicy, okHtml, okTar \in BOOLEAN :
       ensureDocs(updatePolicy, okHtml, okTar)
  \/ Publish
  \/ Tick
  \/ Damage

SpecDocs == InitDocs /\ [][NextDocs]_vars

(***************************************************************************)
(* Loading the engine in the worker (src/mcp.ts).  loadStdApi is an async  *)
(* function: each action below is the code one call runs between two       *)
(* awaits, and calls of different ZigDocsMcp objects interleave at the     *)
(* awaits.  A StdApi instance is named by the number of its unpack.        *)
(***************************************************************************)
\* loadStdApi(env) up to its first await: the cached instance is returned,
\* or sources.tar is requested
loadStdApi(c) ==
  /\ loads[c].at = "idle"
  /\ IF stdApiCache # 0
       THEN /\ loads' = [loads EXCEPT ![c] = [at |-> "returned", api |-> stdApiCache]]
            /\ UNCHANGED loadLog
       ELSE /\ loads' = [loads EXCEPT ![c].at = "fetch"]
            /\ loadLog' = [loadLog EXCEPT !.tar = @ + 1]
  /\ UNCHANGED <<outsideLoad, stdApiCache>>

\* the response for sources.tar arrives: not ok throws, ok reads its body
tarResp(c, ok) ==
  /\ loads[c].at = "fetch"
  /\ loads' = [loads EXCEPT ![c].at = IF ok THEN "buffer" ELSE "thrown"]
  /\ UNCHANGED <<outsideLoad, stdApiCache, loadLog>>

\* the body has been read: initStdApi(wasmModule, tar) runs up to the await
\* of WebAssembly.instantiate
initStdApi(c) ==
  /\ loads[c].at = "buffer"
  /\ loads' = [loads EXCEPT ![c].at = "instantiate"]
  /\ loadLog' = [loadLog EXCEPT !.wasm = @ + 1]
  /\ UNCHANGED <<outsideLoad, stdApiCache>>

\* the instance exists: the rest of initStdApi copies the tar into its
\* memory, calls unpack and returns the StdApi built on it
unpack(c) ==
  /\ loads[c].at = "instantiate"
  /\ loadLog' = [loadLog EXCEPT !.unpack = @ + 1]
  /\ loads' = [loads EXCEPT ![c] = [at |-> "store", api |-> loadLog.unpack + 1]]
  /\ UNCHANGED <<outsideLoad, stdApiCache>>

\* loadStdApi after the await of initStdApi: the instance is stored in the
\* static field and returned
storeStdApi(c) ==
  /\ loads[c].at = "store"
  /\ stdApiCache' = loads[c].api
  /\ loads' = [loads EXCEPT ![c].at = "returned"]
  /\ UNCHANGED <<outsideLoad, loadLog>>

InitLoad ==
  /\ ApiIdle
  /\ RenderIdle
  /\ ViewerIdle
  /\ SearchIdle
  /\ BuiltinIdle
  /\ DocsIdle
  /\ LoadIdle

NextLoad ==
  \/ \E c \in Loaders : loadStdApi(c)
  \/ \E c \in Loaders, ok \in BOOLEAN : tarResp(c, ok)
  \/ \E c \in Loaders : initStdApi(c)
  \/ \E c \in Loaders : unpack(c)
  \/ \E c \in Loaders : storeStdApi(c)

SpecLoad == InitLoad /\ [][NextLoad]_vars


(***************************************************************************)
(* Alias chains of the index, read off the index itself.                   *)
(***************************************************************************)
\* the handle k alias hops after h
RECURSIVE Walk(_, _, _)
Walk(e, h, k) == IF k = 0 THEN h ELSE e.aliasee[Walk(e, h, k - 1)]

\* h starts an acyclic alias chain of length n: n aliases, then a concrete
\* declaration
IsChain(e, h, n) ==
  /\ \A k \in 0..(n - 1) : e.cat[Walk(e, h, k)] = CAT_alias
  /\ Walk(e, h, n) # Absent
  /\ e.cat[Walk(e, h, n)] # CAT_alias

Unwinding == pc = "unwind"

(***************************************************************************)
(* C1: alias unwinding terminates at every site, also on an alias cycle:   *)
(* one unwinding never fetches the aliasee of a handle it has already      *)
(* fetched from, so it ends within as many fetches as there are handles.   *)
(***************************************************************************)
C1_UnwindingNeverRevisits == fetches = Cardinality(fetched)

(***************************************************************************)
(* C2: on an acyclic alias chain of length n from handle h the unwinding   *)
(* follows the chain hop by hop, leaves the loop after exactly n aliasee   *)
(* fetches at the concrete end of the chain (n = 0: at h itself), and the  *)
(* entry or document it produces is made from that end.                    *)
(***************************************************************************)
C2_UnwindsChainExactly ==
  \A n \in 0..NumDecls :
    /\ (Unwinding /\ IsChain(engine, orig, n)) =>
         /\ fetches <= n
         /\ cur = Walk(engine, orig, fetches)
         /\ (kind # "alias" => fetches = n /\ cur = Walk(engine, orig, n))
         /\ (n = 0 => cur = orig /\ kind # "alias")
    /\ \A i \in 1..Len(out) :
         IsChain(engine, out[i].idx, n) => out[i].real = Walk(engine, out[i].idx, n)
    /\ (result.type = "doc" /\ IsChain(engine, decl_index, n)) =>
         result.real = Walk(engine, decl_index, n)

C2_Witness ==
  /\ Unwinding
  /\ IsChain(engine, orig, 2)
  /\ kind # "alias"
  /\ fetches = 2
  /\ cur # orig

(***************************************************************************)
(* C3: an alias chain that revisits a handle is reported as a failure: no  *)
(* member entry and no document is made from a handle that is still        *)
(* categorized as alias.                                                   *)
(***************************************************************************)
C3_CycleIsReportedAsFailure ==
  /\ \A i \in 1..Len(out) : engine.cat[out[i].real] # CAT_alias
  /\ result.type = "doc" => engine.cat[result.real] # CAT_alias


Resolving == pc # "idle"

FirstOf(S) == CHOOSE i \in S : \A j \in S : i <= j

(***************************************************************************)
(* C4: when every find_decl probe of a documentation request fails,        *)
(* getItemDetails returns null, the get_std_doc_item tool answers with the *)
(* normal message "No documentation found", and no document content (no   *)
(* title, kind, declaration or member) is produced.                        *)
(***************************************************************************)
C4_UnresolvedGivesNoDocument ==
  (/\ pc = "done"
   /\ op \in {"getItemDetails", "McpGetItemDetails"}
   /\ probes # << >>
   /\ \A i \in 1..Len(probes) : find_decl(engine, probes[i]) = Absent)
  => /\ result.type = "null"
     /\ result.reply = "No documentation found"
     /\ result.title = << >>
     /\ result.kind = ""
     /\ result.real = Absent
     /\ result.items = << >>
     /\ out = << >>

C4_Witness ==
  /\ pc = "done"
  /\ op = "getItemDetails"
  /\ input = <<SegStd, IdHump>>
  /\ Len(probes) = 2 + Len(commonSubmodules)
  /\ \A i \in 1..Len(probes) : find_decl(engine, probes[i]) = Absent
  /\ result.reply = "No documentation found"

(***************************************************************************)
(* C5: for a non-root input the probes follow the candidate list fixed by  *)
(* the input's prefix (no prefix X: root.X, std.X, X; std.-prefixed: the   *)
(* input with std. swapped for root., then the input; root.-prefixed: the  *)
(* input), in that order; the handle used is that of the first candidate   *)
(* of the list that resolves and no candidate is probed after it.          *)
(***************************************************************************)
C5_Expected(n) ==
  IF StartsWithStd(n) THEN << <<SegRoot>> \o Tail(n), n >>
  ELSE IF StartsWithRoot(n) THEN << n >>
  ELSE << <<SegRoot>> \o n, <<SegStd>> \o n, n >>

C5_FirstResolvingCandidateWins ==
  (/\ Resolving
   /\ op \in PlainOps
   /\ ~IsRootInput(input))
  => LET exp == C5_Expected(input)
         hits == {i \in 1..Len(exp) : find_decl(engine, exp[i]) # Absent}
     IN /\ \A i \in 1..Len(exp) : i <= Len(probes) => probes[i] = exp[i]
        /\ hits # {} => /\ decl_index = find_decl(engine, exp[FirstOf(hits)])
                        /\ probes = SubSeq(exp, 1, FirstOf(hits))
        /\ hits = {} => Len(probes) >= Len(exp)

C5_Witness ==
  /\ Resolving
  /\ op = "getItemDetails"
  /\ input = <<IdFs>>
  /\ find_decl(engine, <<SegRoot, IdFs>>) = Absent
  /\ find_decl(engine, <<SegStd, IdFs>>) # Absent
  /\ find_decl(engine, <<IdFs>>) # Absent
  /\ decl_index = find_decl(engine, <<SegStd, IdFs>>)
  /\ Len(probes) = 2

(***************************************************************************)
(* C6 as stated: for every identifier X, when root.X and std.X do not      *)
(* resolve and the declaration lives under the like-named snake_case       *)
(* submodule, resolving std.X returns that declaration.                    *)
(***************************************************************************)
C6_UnderSnake(X) ==
  LET a == find_decl(engine, <<SegRoot, toSnakeCase(X), X>>)
  IN IF a # Absent THEN a ELSE find_decl(engine, <<SegStd, toSnakeCase(X), X>>)

C6_Case ==
  /\ Resolving
  /\ op = "getItemDetails"
  /\ Len(input) = 2
  /\ input[1] = SegStd
  /\ find_decl(engine, <<SegRoot, input[2]>>) = Absent
  /\ find_decl(engine, <<SegStd, input[2]>>) = Absent
  /\ C6_UnderSnake(input[2]) # Absent

C7_RootInputIsNotProbed ==
  (/\ Resolving
   /\ op \in {"getItemDetails", "McpGetItemDetails"}
   /\ input \in {EmptyString, <<SegStd>>})
  => /\ probes = << >>
     /\ decl_index = find_module_root(engine)
     /\ (pc = "done" /\ engine.cat[engine.root] = CAT_container
         /\ engine.children[engine.root] # << >>) => result.items # << >>

(***************************************************************************)
(* C8: whenever the engine resolves root.P, the resolver returns the same  *)
(* handle for the input root.P and for the input std.P, in getItemDetails, *)
(* listMembers and resolveFqnAndKind alike.                                *)
(***************************************************************************)
C8_Paths == {Tail(DeclNameSeq[i]) : i \in {j \in 1..Len(DeclNameSeq) :
                                             StartsWithRoot(DeclNameSeq[j])}}

C8_RootAndStdFormsAgree ==
  /\ \A P \in C8_Paths :
       find_decl(engine, <<SegRoot>> \o P) # Absent
       => /\ ResolveItem(engine, <<SegStd>> \o P).decl
               = ResolveItem(engine, <<SegRoot>> \o P).decl
          /\ ResolveList(engine, <<SegStd>> \o P).decl
               = ResolveList(engine, <<SegRoot>> \o P).decl
          /\ ResolveMcp(engine, <<SegStd>> \o P).decl
               = ResolveMcp(engine, <<SegRoot>> \o P).decl
  /\ (/\ Resolving
      /\ op \in PlainOps
      /\ StartsWithStd(input) \/ StartsWithRoot(input)
      /\ find_decl(engine, StdToRoot(input)) # Absent)
     => decl_index = find_decl(engine, StdToRoot(input))

C8_Witness ==
  /\ Resolving
  /\ op = "getItemDetails"
  /\ input = <<SegStd, IdFs>>
  /\ find_decl(engine, <<SegRoot, IdFs>>) # Absent
  /\ find_decl(engine, <<SegStd, IdFs>>) # Absent
  /\ decl_index = find_decl(engine, <<SegRoot, IdFs>>)
  /\ decl_index = ResolveItem(engine, <<SegRoot, IdFs>>).decl

(***************************************************************************)
(* C9: for a non-root parent, listMembers returns one member per child     *)
(* handle the engine returned, in the engine's order; the member's name is *)
(* the fully qualified name of the child handle itself, its kind and       *)
(* briefDoc are those of the handle at the end of the child's alias chain. *)
(***************************************************************************)
C9_Returned ==
  IF op = "listMembers" THEN ListChildren(engine, decl_index)
                        ELSE namespaceMembers(engine, decl_index)

C9_MembersMirrorChildren ==
  (/\ pc = "done"
   /\ op \in {"listMembers", "McpListMembers"}
   /\ ~IsRootInput(input)
   /\ decl_index # Absent)
  => /\ Len(result.items) = Len(C9_Returned)
     /\ \A i \in 1..Len(result.items) :
          /\ result.items[i].idx = C9_Returned[i]
          /\ result.items[i].name = fullyQualifiedName(engine, C9_Returned[i])
          /\ \A n \in 0..NumDecls :
               IsChain(engine, C9_Returned[i], n)
               => /\ result.items[i].kind =
                       kindString(engine.cat[Walk(engine, C9_Returned[i], n)])
                  /\ result.items[i].brief =
                       declDocsHtmlShort(engine, Walk(engine, C9_Returned[i], n))

(***************************************************************************)
(* C10: the listing of "", "root" or "std" contains only entries named     *)
(* std.<one segment> that come from a query result whose fully qualified   *)
(* name is root.std.<that segment>, no two entries have the same name, and *)
(* the entries are in ascending order of name (the order of localeCompare).*)
(***************************************************************************)
C10_RootListingSortedAndUnique ==
  (/\ pc = "done"
   /\ op = "listMembers"
   /\ IsRootInput(input))
  => /\ \A i \in 1..Len(result.items) :
          /\ Len(result.items[i].name) = 2
          /\ result.items[i].name[1] = SegStd
          /\ \E q \in 1..Len(engine.query) :
               /\ result.items[i].idx = engine.query[q]
               /\ fullyQualifiedName(engine, engine.query[q])
                    = <<SegRoot>> \o result.items[i].name
     /\ \A i, j \in 1..Len(result.items) :
          i < j => /\ result.items[i].name # result.items[j].name
                   /\ localeCompare(result.items[i].name, result.items[j].name) < 0

C10_Witness ==
  /\ pc = "done"
  /\ op = "listMembers"
  /\ input = <<SegStd>>
  /\ Len(engine.query) = 3
  /\ Len(result.items) = 2
  /\ result.items[1].idx = engine.query[3]
  /\ result.items[2].idx = engine.query[1]

(***************************************************************************)
(* C11: a document is rendered from the alias-unwound declaration: for     *)
(* every resolved request the kind of the document is never "alias", the   *)
(* handle its docs, signature, source and members are read from is not     *)
(* categorized as alias, and the members getItemDetails lists are children *)
(* of that handle.                                                         *)
(***************************************************************************)
C11_Rendered == result.type \in {"doc", "source"}

C11_RenderedFromUnwoundDeclaration ==
  C11_Rendered
  => /\ result.kind # "alias"
     /\ engine.cat[result.real] # CAT_alias
     /\ op \in {"getItemDetails", "McpGetItemDetails"}
        => \A i \in 1..Len(result.items) :
             \E j \in 1..Len(engine.children[result.real]) :
                engine.children[result.real][j] = result.items[i].idx

(***************************************************************************)
(* C12: when the request is a two-segment name std.X and it resolves, by   *)
(* whichever candidate, the title of the document getItemDetails renders   *)
(* is exactly the requested std.X, not the path of the unwound             *)
(* declaration.                                                            *)
(***************************************************************************)
C12_ShortAliasKeepsRequestedTitle ==
  (/\ op = "getItemDetails"
   /\ result.type = "doc"
   /\ Len(input) = 2
   /\ input[1] = SegStd)
  => result.title = input

C12_Witness ==
  /\ pc = "done"
  /\ op = "getItemDetails"
  /\ result.type = "doc"
  /\ input = <<SegStd, IdCamel>>
  /\ result.title = <<SegStd, IdCamel>>
  /\ Len(probes) >= 3
  /\ RootToStd(fullyQualifiedName(engine, result.real)) = <<SegStd, IdCamelSnake, IdCamel>>

(***************************************************************************)
(* C13: a section heading is emitted only when its section has content,    *)
(* and no heading twice; for a function, and in getItemDetails for a type  *)
(* function as well, the Errors heading is there if and only if the        *)
(* declaration declares an error set that has at least one entry, so a     *)
(* function without a declared error set has no Errors heading.            *)
(***************************************************************************)
C13_SectionSize(h) ==
  CASE h = "Function Signature" -> content.proto
    [] h = "Parameters" -> content.params
    [] h = "Errors" -> content.errors
    [] h \in {"Example Usage", "Example usage"} -> content.doctest
    [] h \in {"Source Code", "Source code"} -> content.source
    [] h = "Functions" -> content.members
    [] h = "Fields" -> content.fields
    [] OTHER -> 0

C13_HasErrorsHeading == \E i \in 1..Len(rendered.headings) : rendered.headings[i] = "Errors"

C14_EndsUnrecognized(h) ==
  \E n \in 0..NumDecls :
     IsChain(engine, h, n) /\ engine.cat[Walk(engine, h, n)] = CAT_unrecognized

C14_UnrecognizedCategoryIsAFault ==
  /\ result.kind # "unknown"
  /\ \A i \in 1..Len(out) : out[i].kind # "unknown"
  /\ \A i \in 1..Len(result.items) : result.items[i].kind # "unknown"
  /\ (pc = "done" /\ decl_index # Absent /\ C14_EndsUnrecognized(decl_index))
     => result.type = "fault"
  /\ result.type = "fault" => result.reply = ""

(***************************************************************************)
(* C15: in every interleaving of concurrent searchStdLib / getStdLibItem   *)
(* calls, each engine operation a call issues runs against the instance    *)
(* that call loaded, the read that consumes the input string consumes the  *)
(* string the same call wrote, and between two engine operations of a call *)
(* there is no engine operation of another call.                           *)
(***************************************************************************)
C15_CallsAreSerialized ==
  /\ \A i \in 1..Len(oplog) :
       /\ oplog[i].instance = calls[oplog[i].call].exports
       /\ oplog[i].instance = oplog[i].call
       /\ oplog[i].name = "exec" => oplog[i].wrote = oplog[i].call
  /\ \A i, j, k \in 1..Len(oplog) :
       (i < j /\ j < k /\ oplog[i].call = oplog[k].call)
       => oplog[j].call = oplog[i].call

C15_Witness ==
  /\ calls[1].pc = "returned"
  /\ calls[2].pc = "returned"
  /\ calls[1].fn = "searchStdLib"
  /\ calls[2].fn = "getStdLibItem"
  /\ wasm_exports = 1
  /\ Len(oplog) = 8
  /\ oplog[3] = EngineOp(2, 2, "exec", 2)
  /\ oplog[7] = EngineOp(1, 1, "exec", 1)

(***************************************************************************)
(* C16: search and searchStdLib run the engine query with ignoreCase true  *)
(* exactly when the query has no upper-case character, and return the      *)
(* matches of that query in the engine's order (searchStdLib the first     *)
(* `limit` of them).                                                       *)
(***************************************************************************)
C16_HasUpper == \E i \in 1..Len(query) : \E j \in 1..Len(query[i]) : IsUpper(query[i][j])

C16_Expected == IF C16_HasUpper THEN answers.sensitive ELSE answers.insensitive

C16_CaseSensitivityIsAutomatic ==
  searched # NoMatches
  => /\ searched.ignore_case = ~C16_HasUpper
     /\ searched.total = Len(C16_Expected)
     /\ Len(searched.entries) <= Len(C16_Expected)
     /\ searched.by = "search" => Len(searched.entries) = Len(C16_Expected)
     /\ \A i \in 1..Len(searched.entries) :
          searched.entries[i].name = engine.fqn[C16_Expected[i]]

C16_Witness ==
  /\ searched.by = "search"
  /\ query = <<SegStd, IdHump>>
  /\ ~searched.ignore_case
  /\ Len(answers.insensitive) = 3
  /\ Len(searched.entries) = 1
  /\ searched.entries[1].name # engine.fqn[answers.insensitive[1]]

(***************************************************************************)
(* C17: for a query that is not empty once trimmed, get_builtin_function   *)
(* lists exactly the builtin functions whose lower-cased name contains the *)
(* lower-cased, trimmed query, each with the score 1000 (equal), 500       *)
(* (prefix) or 300 (substring) plus max(0, 50 - name length), in           *)
(* non-increasing score order.                                             *)
(***************************************************************************)
C17_Query == trim(toLowerCase(arguments.function_name))

C17_Tier(func) ==
  IF toLowerCase(func) = C17_Query THEN 1000
  ELSE IF startsWith(toLowerCase(func), C17_Query) THEN 500
  ELSE 300

C17_Matching ==
  {i \in 1..Len(builtinFunctions) : includes(toLowerCase(builtinFunctions[i]), C17_Query)}

C17_ListsMatchesByScore ==
  response.kind \in {"none", "results"}
  => /\ C17_Query # << >>
     /\ {response.listed[k].func : k \in 1..Len(response.listed)}
          = {builtinFunctions[i] : i \in C17_Matching}
     /\ Len(response.listed) = Cardinality(C17_Matching)
     /\ \A k \in 1..Len(response.listed) :
          LET fn == response.listed[k]
          IN fn.score = C17_Tier(fn.func) + (IF Len(fn.func) < 50 THEN 50 - Len(fn.func) ELSE 0)
     /\ \A k \in 1..(Len(response.listed) - 1) :
          response.listed[k].score >= response.listed[k + 1].score
     /\ response.kind = "none" <=> C17_Matching = {}

C17_Witness ==
  /\ response.kind = "results"
  /\ Len(builtinFunctions) = 3
  /\ Len(response.listed) = 2
  /\ response.listed[1].func = builtinFunctions[3]
  /\ response.listed[1].score = 547
  /\ response.listed[2].func = builtinFunctions[1]
  /\ response.listed[2].score = 347

(***************************************************************************)
(* C18: in the output of get_builtin_function every exact-name match       *)
(* stands before, and scores strictly more than, every prefix-only match,  *)
(* and every prefix-only match before and above every substring-only       *)
(* match, whatever the lengths of the names.                               *)
(***************************************************************************)
C18_TiersNeverOverlap ==
  \A i, j \in 1..Len(response.listed) :
    C17_Tier(response.listed[i].func) > C17_Tier(response.listed[j].func)
    => /\ i < j
       /\ response.listed[i].score > response.listed[j].score

C18_Witness ==
  /\ response.kind = "results"
  /\ Len(response.listed) = 3
  /\ builtinFunctions[1] = <<"c","A","b">>
  /\ builtinFunctions[2] = <<"a","b">> \o Pad(49)
  /\ builtinFunctions[3] = <<"A","B">>
  /\ response.listed[1].func = builtinFunctions[3]
  /\ response.listed[2].func = builtinFunctions[2]
  /\ response.listed[2].score = 500
  /\ response.listed[3].score = 347

(***************************************************************************)
(* C19: get_builtin_function called with an empty, whitespace-only or      *)
(* missing function_name answers with the usage prompt as a normal result: *)
(* no error, and no list of functions.                                     *)
(***************************************************************************)
C19_NoQuery == ~arguments.given \/ trim(arguments.function_name) = << >>

C19_NoQueryGetsThePrompt ==
  (response # NoResponse /\ C19_NoQuery)
  => /\ response.kind = "prompt"
     /\ ~response.isError
     /\ response.listed = << >>

(***************************************************************************)
(* C20: with update policy "startup" every ensureDocs call whose downloads *)
(* succeed fetches both the builtin-function reference and sources.tar     *)
(* again and rewrites builtin-functions.json, sources.tar and              *)
(* metadata.json, whatever the cache held.                                 *)
(***************************************************************************)
C20_StartupAlwaysRefetches ==
  (ensured.policy = "startup" /\ ensured.status = "returned")
  => /\ ensured.fetched = {"builtins", "sources"}
     /\ ensured.wrote = {"builtin-functions.json", "sources.tar", "metadata.json"}
     /\ cache.builtins = upstream
     /\ cache.sources = upstream
     /\ ensured.builtinFunctions = upstream

(***************************************************************************)
(* C21: with update policy "daily" an ensureDocs call performs an update   *)
(* exactly when metadata.json is missing, unreadable, or records a         *)
(* lastUpdate at least 24 hours old; a start less than 24 hours after a    *)
(* recorded update performs none and leaves metadata.json and sources.tar  *)
(* alone.                                                                  *)
(***************************************************************************)
C21_Stale ==
  \/ cache.metadata = Missing
  \/ cache.metadata = Unreadable
  \/ (cache.metadata >= 0 /\ now - cache.metadata >= 86400000)

C21_DailyStart == ensured' # ensured /\ ensured'.policy = "daily"

C21_DailyUpdatesOnlyWhenStale ==
  [][C21_DailyStart
       => /\ ensured'.update <=> C21_Stale
          /\ ~C21_Stale => /\ cache'.metadata = cache.metadata
                           /\ cache'.sources = cache.sources
                           /\ "sources" \notin ensured'.fetched]_vars

C21_Witness ==
  /\ ensured.policy = "daily"
  /\ ensured.status = "returned"
  /\ ~ensured.update
  /\ cache.metadata = 43200000
  /\ now = 86400000
  /\ upstream > cache.sources

(***************************************************************************)
(* C22: every member name that getItemDetails lists in a document, or that *)
(* listMembers returns, resolves through the candidates of getItemDetails  *)
(* to a declaration (find_decl finds every declaration by its own name).   *)
(***************************************************************************)
C22_Listing ==
  /\ pc = "done"
  /\ op \in {"getItemDetails", "listMembers"}
  /\ result.type \in {"doc", "list"}

C22_ListedNamesResolve ==
  C22_Listing
  => \A i \in 1..Len(result.items) :
       ResolveItem(engine, result.items[i].name).decl # Absent

(***************************************************************************)
(* The member names of a resolved (non-root) parent do resolve, and to the  *)
(* listed child itself.                                                    *)
(***************************************************************************)
C22_ChildNamesResolve ==
  (C22_Listing /\ ~IsRootListing)
  => \A i \in 1..Len(result.items) :
       ResolveItem(engine, result.items[i].name).decl = result.items[i].idx

(***************************************************************************)
(* C23: when get_aliasee answers the absent value -1, every unwinding site *)
(* stops and reports failure: -1 never becomes the handle being unwound,   *)
(* categorized or rendered, and no entry or document is made from it.      *)
(***************************************************************************)
C23_AbsentTargetStopsUnwinding ==
  /\ Unwinding => cur # Absent
  /\ \A i \in 1..Len(out) : out[i].real # Absent
  /\ result.type \in {"doc", "source"} => result.real # Absent
  /\ result.type # "thrown"

(***************************************************************************)
(* C24: every get_aliasee call comes right after a categorize_decl of the  *)
(* handle being unwound that answered alias: at each fetch the engine's    *)
(* context is that handle, and the handle read is that handle's aliasee.   *)
(***************************************************************************)
C24_Fetch == fetches' > fetches

C24_AliaseeReadBelongsToCurrent ==
  [][C24_Fetch
       => /\ Unwinding
          /\ kind = "alias"
          /\ engine.cat[cur] = CAT_alias
          /\ slot = cur
          /\ \/ cur' = engine.aliasee[cur]
             \/ cur' = cur /\ pc' = "done"]_vars

C24_Witness ==
  /\ Unwinding
  /\ op = "McpListMembers"
  /\ phase = "member"
  /\ fetches = 2
  /\ kind # "alias"
  /\ cur = Walk(engine, orig, 2)
  /\ Len(out) = 1
  /\ out[1].idx # out[1].real

(***************************************************************************)
(* C25: a child list is fetched with the operation that matches its        *)
(* parent's category: type_fn_members on a type function only, and         *)
(* namespace_members never on a type function.                             *)
(***************************************************************************)
C25_MembersOperationMatchesParent ==
  /\ membersOp.fn = "type_fn_members"
       => engine.cat[membersOp.on] = CAT_type_function
  /\ membersOp.fn = "namespace_members"
       => engine.cat[membersOp.on] # CAT_type_function

(***************************************************************************)
(* C26: listMembers of a name that resolves to an alias returns the        *)
(* members of the declaration at the end of the alias chain, as listing    *)
(* that declaration directly does; it is not empty when that declaration   *)
(* has members.                                                            *)
(***************************************************************************)
C26_Target(n) == Walk(engine, decl_index, n)

C26_AliasListsItsTarget ==
  (/\ pc = "done"
   /\ op \in {"listMembers", "McpListMembers"}
   /\ decl_index # Absent
   /\ engine.cat[decl_index] = CAT_alias)
  => \A n \in 1..NumDecls :
       IsChain(engine, decl_index, n)
       => /\ Len(result.items) = Len(engine.children[C26_Target(n)])
          /\ \A i \in 1..Len(result.items) :
               result.items[i].idx = engine.children[C26_Target(n)][i]

(***************************************************************************)
(* C27: getItemDetails probes the common submodules only for an input that *)
(* starts with "std." and only after every earlier candidate has failed,   *)
(* as root.<submodule>.<rest of the input> in list order, and stops at the *)
(* first that resolves; when an earlier candidate resolves, that one is    *)
(* the result and nothing further is probed.                               *)
(***************************************************************************)
C27_Earlier == ItemCandidates(input)

C27_EarlierHits == {i \in 1..Len(C27_Earlier) : find_decl(engine, C27_Earlier[i]) # Absent}

C27_Submodule(i) == <<SegRoot, commonSubmodules[i]>> \o Tail(input)

C27_SubmoduleHits ==
  {i \in 1..Len(commonSubmodules) : find_decl(engine, C27_Submodule(i)) # Absent}

C27_SubmodulesAreLastResort ==
  (op = "getItemDetails" /\ pc # "idle" /\ ~IsRootInput(input))
  => /\ C27_EarlierHits # {}
          => /\ probes = SubSeq(C27_Earlier, 1, FirstOf(C27_EarlierHits))
             /\ decl_index = find_decl(engine, C27_Earlier[FirstOf(C27_EarlierHits)])
     /\ (C27_EarlierHits = {} /\ ~StartsWithStd(input))
          => probes = C27_Earlier /\ decl_index = Absent
     /\ (C27_EarlierHits = {} /\ StartsWithStd(input))
          => LET last == IF C27_SubmoduleHits = {} THEN Len(commonSubmodules)
                         ELSE FirstOf(C27_SubmoduleHits)
             IN /\ probes = C27_Earlier \o [i \in 1..last |-> C27_Submodule(i)]
                /\ decl_index = find_decl(engine, C27_Submodule(last))

C27_Witness ==
  /\ op = "getItemDetails"
  /\ pc # "idle"
  /\ input = <<SegStd, IdCamel>>
  /\ C27_EarlierHits = {}
  /\ Cardinality(C27_SubmoduleHits) = 2
  /\ Len(probes) = 13
  /\ decl_index = find_decl(engine, <<SegRoot, IdMem, IdCamel>>)
  /\ decl_index # Absent

(***************************************************************************)
(* C28: in a document getItemDetails renders for a namespace, container or *)
(* type function every child the engine returned is listed in exactly one  *)
(* of the sections Types, Namespaces, Functions, Values, chosen by the      *)
(* category of the declaration at the end of the child's alias chain; the  *)
(* listed entries are as many as the children.                             *)
(***************************************************************************)
C28_Section(cat) ==
  IF cat \in {CAT_container, CAT_type, CAT_type_function} THEN "Types"
  ELSE IF cat = CAT_namespace THEN "Namespaces"
  ELSE IF cat = CAT_function THEN "Functions"
  ELSE "Values"

C28_InSection(sec) == {i \in 1..Len(result.items) : result.items[i].section = sec}

C28_Document ==
  /\ pc = "done"
  /\ op = "getItemDetails"
  /\ result.type = "doc"
  /\ result.kind \in {"namespace", "container", "type_function"}

C28_EveryMemberInOneSection ==
  C28_Document
  => LET children == engine.children[result.real]
     IN /\ Len(result.items) = Len(children)
        /\ Cardinality(C28_InSection("Types")) + Cardinality(C28_InSection("Namespaces"))
             + Cardinality(C28_InSection("Functions")) + Cardinality(C28_InSection("Values"))
             = Len(children)
        /\ \A i \in 1..Len(result.items) :
             /\ result.items[i].idx = children[i]
             /\ \A n \in 0..NumDecls :
                  IsChain(engine, children[i], n)
                  => result.items[i].section
                       = C28_Section(engine.cat[Walk(engine, children[i], n)])

C28_Witness ==
  /\ C28_Document
  /\ result.kind = "type_function"
  /\ Len(result.items) = 2
  /\ result.items[1].section = "Types"
  /\ result.items[1].idx # result.items[1].real
  /\ result.items[2].section = "Values"

(***************************************************************************)
(* C29: when a step of an update fails, ensureDocs throws and leaves       *)
(* metadata.json as it was: lastUpdate is written only by a call that      *)
(* updated and returned, after sources.tar was downloaded and written, so  *)
(* after a failed update under "daily" the next start is due to update     *)
(* again.                                                                  *)
(***************************************************************************)
C29_FailedUpdate ==
  /\ ensured' # ensured
  /\ ensured'.update
  /\ ensured'.status = "thrown"

C29_MetadataOnlyAfterSuccess ==
  [][/\ (cache'.metadata # cache.metadata /\ cache'.metadata # Unreadable)
          => /\ ensured'.update
             /\ ensured'.status = "returned"
             /\ {"sources.tar", "metadata.json"} \subseteq ensured'.wrote
             /\ ensured'.builtinFunctions # Missing
             /\ cache'.metadata = now
     /\ C29_FailedUpdate
          => /\ cache'.metadata = cache.metadata
             /\ "metadata.json" \notin ensured'.wrote
             /\ ensured'.policy = "daily"
                  => \/ cache'.metadata \in {Missing, Unreadable}
                     \/ now - cache'.metadata >= 86400000]_vars

C29_Witness ==
  /\ ensured.policy = "daily"
  /\ ensured.update
  /\ ensured.status = "thrown"
  /\ ensured.fetched = {"builtins", "sources"}
  /\ ensured.wrote = {"builtin-functions.json"}
  /\ cache.metadata = 0
  /\ now = 86400000

(***************************************************************************)
(* C30: however the calls of loadStdApi overlap, sources.tar is requested  *)
(* once (unless a request failed), the engine is instantiated and unpacked *)
(* once, and all calls that return hand back the same StdApi instance.     *)
(***************************************************************************)
C30_LoadedOnce ==
  /\ (\A c \in Loaders : loads[c].at # "thrown") => loadLog.tar <= 1
  /\ loadLog.wasm <= 1
  /\ loadLog.unpack <= 1
  /\ \A c, d \in Loaders :
       loads[c].at = "returned" /\ loads[d].at = "returned"
         => loads[c].api = loads[d].api

\* calls that start once an instance is stored do share it
C30_LaterCallsShare ==
  [][\A c \in Loaders :
       loads[c].at = "idle" /\ stdApiCache # 0 /\ loads'[c] # loads[c]
         => /\ loads'[c] = [at |-> "returned", api |-> stdApiCache]
            /\ loadLog' = loadLog]_vars

C30_Witness ==
  /\ \A c \in Loaders : loads[c].at = "returned"
  /\ loads[1].api # loads[2].api
  /\ loads[3].api = loads[2].api
  /\ loadLog = [tar |-> 2, wasm |-> 2, unpack |-> 2]

=============================================================================
